---------------------------- MODULE Spec2Model ----------------------------
(***************************************************************************)
(* A model of the maze game: the MazeBoard grid and registries, the        *)
(* RecursiveBacktracker carver, the ItemPlacer (placement and solvability  *)
(* search), the Player and the move / pickup / drop / use commands.        *)
(*                                                                         *)
(* Positions are pairs <<row, col>>.  The code keys its maps by the        *)
(* strings "row,col" and "row,col:dir"; both encodings are injective on    *)
(* integer coordinates, so the model keys the maps by the tuples.          *)
(* An optional value (T | undefined) is a sequence of length at most one:  *)
(* <<>> is undefined, <<x>> is x.                                          *)
(***************************************************************************)
EXTENDS Integers, Sequences, FiniteSets, TLC

VARIABLES
    rows, cols,       \* MazeBoard.rows / MazeBoard.cols
    grid,             \* MazeBoard.grid : cell position -> walls record
    revealed,         \* MazeBoard.revealed
    collectibles,     \* MazeBoard.collectibles : position -> type
    blockers,         \* MazeBoard.blockers : <<position, direction>> -> type
    player,           \* Game.player : [position, moveCount, inventory]
    won,              \* Game.won
    phase,            \* Game.currentState and the position inside newGame
    stack, visited,   \* locals of RecursiveBacktracker.generate
    attempt,          \* loop counter of ItemPlacer.place
    animating,        \* PlayerView.animating (an animation is in progress)
    awaiting          \* the move commands suspended at their await

vars == <<rows, cols, grid, revealed, collectibles, blockers, player, won,
          phase, stack, visited, attempt, animating, awaiting>>

boardVars == <<rows, cols, grid, revealed, collectibles, blockers>>

----------------------------------------------------------------------------
(* Bounds of the model *)

\* boards of at most MaxCells cells are built
MaxCells == 7

\* Player.moveCount is capped: no move is issued at MaxMoves
MaxMoves == 6

\* no move is issued over a running animation once MaxAwaiting move
\* commands are suspended at their await
MaxAwaiting == 3

\* boards of at most MaxBuildCells cells are built when a round is built
\* and not played
MaxBuildCells == 8

\* the columns of the one-row board that is built beside the small ones
WideCols == 90

\* a shuffle of the candidate passages brings passages among the first
\* MaxDraw to the front: every outcome on the boards of MaxBuildCells
\* cells, whose paths have fewer candidates
MaxDraw == 6

----------------------------------------------------------------------------
(* types/index.ts *)

Direction == {"north", "south", "east", "west"}

\* Object.values(Direction): the enum's declaration order
DirOrder == <<"north", "south", "east", "west">>

DIRECTION_OFFSETS ==
    [d \in Direction |->
        CASE d = "north" -> <<-1, 0>>
          [] d = "south" -> <<1, 0>>
          [] d = "east"  -> <<0, 1>>
          [] d = "west"  -> <<0, -1>>]

OPPOSITE_DIRECTION ==
    [d \in Direction |->
        CASE d = "north" -> "south"
          [] d = "south" -> "north"
          [] d = "east"  -> "west"
          [] d = "west"  -> "east"]

CollectibleType == {"key_red", "key_blue", "key_green", "dynamite"}

BlockerType == {"door_red", "door_blue", "door_green", "rock"}

\* the empty inventory (null)
NULL == "null"

collectibleColor(type) ==
    CASE type = "key_red"   -> "red"
      [] type = "key_blue"  -> "blue"
      [] type = "key_green" -> "green"
      [] type = "dynamite"  -> NULL

blockerColor(type) ==
    CASE type = "door_red"   -> "red"
      [] type = "door_blue"  -> "blue"
      [] type = "door_green" -> "green"
      [] type = "rock"       -> NULL

\* a canUnlock that compares nothing but key against door: any key clears
\* any door
canUnlockAnyKey(item, blocker) ==
    IF item = "dynamite" /\ blocker = "rock"
    THEN TRUE
    ELSE LET itemCol == collectibleColor(item)
             blockerCol == blockerColor(blocker)
         IN  itemCol # NULL /\ blockerCol # NULL

canUnlock(item, blocker) ==
    IF item = "dynamite" /\ blocker = "rock"
    THEN TRUE
    ELSE LET itemCol == collectibleColor(item)
             blockerCol == blockerColor(blocker)
         IN  itemCol # NULL /\ blockerCol # NULL /\ itemCol = blockerCol

----------------------------------------------------------------------------
(* MazeBoard *)

Start == <<0, 0>>

\* MazeBoard.exit, set by the constructor
Exit == <<rows - 1, cols - 1>>

Cells == (0 .. rows - 1) \X (0 .. cols - 1)

AllWalls == [d \in Direction |-> TRUE]

buildGrid(r, c) == [p \in (0 .. r - 1) \X (0 .. c - 1) |-> AllWalls]

getCell(g, pos) == IF pos \in DOMAIN g THEN <<g[pos]>> ELSE <<>>

inBounds(pos) ==
    pos[1] >= 0 /\ pos[1] < rows /\ pos[2] >= 0 /\ pos[2] < cols

Step(pos, dir) ==
    <<pos[1] + DIRECTION_OFFSETS[dir][1], pos[2] + DIRECTION_OFFSETS[dir][2]>>

neighbor(pos, dir) ==
    LET next == Step(pos, dir)
    IN  IF inBounds(next) THEN <<next>> ELSE <<>>

\* a hasWall that finds no wall where there is no cell
hasWallOpenOutside(g, pos, dir) ==
    LET cell == getCell(g, pos)
    IN  IF cell # <<>> THEN cell[1][dir] ELSE FALSE

hasWall(g, pos, dir) ==
    LET cell == getCell(g, pos)
    IN  IF cell # <<>> THEN cell[1][dir] ELSE TRUE

\* removeWall that forgets the neighbour's side of the wall
removeWallOneSide(g, pos, dir) ==
    LET cell == getCell(g, pos)
        neighborPos == neighbor(pos, dir)
    IN  IF cell = <<>> \/ neighborPos = <<>> THEN g
        ELSE [g EXCEPT ![pos][dir] = FALSE]

\* removeWall that clears the cell's flag before it looks for a neighbour
removeWallAtEdge(g, pos, dir) ==
    LET cell == getCell(g, pos)
        next == Step(pos, dir)
    IN  IF cell = <<>> THEN g
        ELSE LET g1 == [g EXCEPT ![pos][dir] = FALSE]
             IN  IF next \in DOMAIN g
                 THEN [g1 EXCEPT ![next][OPPOSITE_DIRECTION[dir]] = FALSE]
                 ELSE g1

removeWall(g, pos, dir) ==
    LET cell == getCell(g, pos)
        neighborPos == neighbor(pos, dir)
    IN  IF cell = <<>> \/ neighborPos = <<>> THEN g
        ELSE IF getCell(g, neighborPos[1]) = <<>> THEN g
        ELSE LET g1 == [g EXCEPT ![pos][dir] = FALSE]
             IN  [g1 EXCEPT ![neighborPos[1]][OPPOSITE_DIRECTION[dir]] = FALSE]

getBlocker(b, pos, dir) ==
    IF <<pos, dir>> \in DOMAIN b THEN <<b[<<pos, dir>>]>> ELSE <<>>

\* an isBlocked that asks for the wall only
isBlockedWallOnly(g, b, pos, dir) == hasWall(g, pos, dir)

isBlocked(g, b, pos, dir) ==
    IF hasWall(g, pos, dir) THEN TRUE
    ELSE getBlocker(b, pos, dir) # <<>>

\* an openDirections that filters on hasWall and ignores the blockers
openDirectionsWallsOnly(g, b, pos) ==
    IF getCell(g, pos) = <<>> THEN <<>>
    ELSE SelectSeq(DirOrder, LAMBDA dir : ~hasWall(g, pos, dir))

openDirections(g, b, pos) ==
    IF getCell(g, pos) = <<>> THEN <<>>
    ELSE SelectSeq(DirOrder, LAMBDA dir : ~isBlocked(g, b, pos, dir))

isExit(pos) == pos[1] = Exit[1] /\ pos[2] = Exit[2]

isRevealed(rev, pos) == pos \in rev

revealCell(rev, pos) == IF inBounds(pos) THEN rev \cup {pos} ELSE rev

RECURSIVE revealDirs(_, _, _)
revealDirs(rev, pos, dirs) ==
    IF dirs = <<>> THEN rev
    ELSE LET n == neighbor(pos, Head(dirs))
         IN  revealDirs(IF n # <<>> THEN revealCell(rev, n[1]) ELSE rev,
                        pos, Tail(dirs))

\* a revealFrom that looks through the blockers
revealFromThroughBlockers(g, b, rev, pos) ==
    revealDirs(revealCell(rev, pos), pos, openDirectionsWallsOnly(g, b, pos))

revealFrom(g, b, rev, pos) ==
    revealDirs(revealCell(rev, pos), pos, openDirections(g, b, pos))

\* Map.set
MapSet(m, k, v) == (k :> v) @@ m

\* Map.delete
MapDelete(m, k) == [x \in DOMAIN m \ {k} |-> m[x]]

EmptyMap == [x \in {} |-> x]

addCollectible(c, type, pos) == MapSet(c, pos, type)

getCollectible(c, pos) == IF pos \in DOMAIN c THEN <<c[pos]>> ELSE <<>>

removeCollectible(c, pos) ==
    IF getCollectible(c, pos) # <<>> THEN MapDelete(c, pos) ELSE c

addBlocker(b, type, pos, dir) == MapSet(b, <<pos, dir>>, type)

removeBlocker(b, pos, dir) ==
    IF getBlocker(b, pos, dir) # <<>> THEN MapDelete(b, <<pos, dir>>) ELSE b

----------------------------------------------------------------------------
(* Player *)

\* Game.player before newGame has created a player
NoPlayer == [position |-> <<>>, moveCount |-> 0, inventory |-> NULL]

NewPlayer(start) == [position |-> start, moveCount |-> 0, inventory |-> NULL]

\* Player.move that asks hasWall only and walks through blockers
moveThroughBlockers(p, dir, g, b) ==
    IF hasWall(g, p.position, dir)
    THEN [ok |-> FALSE, player |-> p]
    ELSE LET next == Step(p.position, dir)
         IN  IF ~inBounds(next)
             THEN [ok |-> FALSE, player |-> p]
             ELSE [ok |-> TRUE,
                   player |-> [p EXCEPT !.position = next,
                                        !.moveCount = p.moveCount + 1]]

\* Player.move: the returned flag and the player afterwards
move(p, dir, g, b) ==
    IF isBlocked(g, b, p.position, dir)
    THEN [ok |-> FALSE, player |-> p]
    ELSE LET next == Step(p.position, dir)
         IN  IF ~inBounds(next)
             THEN [ok |-> FALSE, player |-> p]
             ELSE [ok |-> TRUE,
                   player |-> [p EXCEPT !.position = next,
                                        !.moveCount = p.moveCount + 1]]

\* Player.pickup
pickup(p, item) ==
    IF p.inventory # NULL
    THEN [ok |-> FALSE, player |-> p]
    ELSE [ok |-> TRUE, player |-> [p EXCEPT !.inventory = item]]

\* a drop that returns the item and keeps it in the inventory
dropKeepsInventory(p) == [item |-> p.inventory, player |-> p]

\* Player.drop: the returned item and the player afterwards
drop(p) == [item |-> p.inventory, player |-> [p EXCEPT !.inventory = NULL]]

\* a useItem that leaves the item in the inventory
useItemKeeps(p, blockerType) ==
    IF p.inventory = NULL THEN [ok |-> FALSE, player |-> p]
    ELSE [ok |-> canUnlock(p.inventory, blockerType), player |-> p]

\* a useItem that gives the item up before it knows the blocker yields
useItemConsumes(p, blockerType) ==
    IF p.inventory = NULL THEN [ok |-> FALSE, player |-> p]
    ELSE [ok |-> canUnlock(p.inventory, blockerType),
          player |-> [p EXCEPT !.inventory = NULL]]

\* Player.useItem
useItem(p, blockerType) ==
    IF p.inventory = NULL THEN [ok |-> FALSE, player |-> p]
    ELSE IF ~canUnlock(p.inventory, blockerType)
    THEN [ok |-> FALSE, player |-> p]
    ELSE [ok |-> TRUE, player |-> [p EXCEPT !.inventory = NULL]]

----------------------------------------------------------------------------
(* The commands (mcp/tools).  A command's execute works on the game's      *)
(* player and board; gm is the record of what it can change, and the       *)
(* result holds the reported success, the reason of a failure and gm       *)
(* afterwards.                                                             *)

Game(p, c, b, rev) ==
    [player |-> p, collectibles |-> c, blockers |-> b, revealed |-> rev]

Failure(gm, reason) == [success |-> FALSE, reason |-> reason, game |-> gm]

Success(gm) == [success |-> TRUE, reason |-> "", game |-> gm]

\* the failure of a move that names the blocker in its way
FailureBlocked(gm, type) ==
    [success |-> FALSE, reason |-> "blocker", game |-> gm, blocker |-> type]

\* a move command that blames a wall whatever stopped the move
moveExecuteBlamesWall(g, gm, dir) ==
    IF dir \notin Direction THEN Failure(gm, "invalid_direction")
    ELSE LET moved == move(gm.player, dir, g, gm.blockers)
             gm1 == [gm EXCEPT !.player = moved.player]
         IN  IF moved.ok THEN Success(gm1) ELSE Failure(gm1, "wall")

\* a move command that looks at walls only
moveExecuteThroughGates(g, gm, dir) ==
    IF dir \notin Direction THEN Failure(gm, "invalid_direction")
    ELSE LET moved == moveThroughBlockers(gm.player, dir, g, gm.blockers)
             gm1 == [gm EXCEPT !.player = moved.player]
         IN  IF moved.ok THEN Success(gm1) ELSE Failure(gm1, "wall")

\* createMoveTool.execute up to its await; the player is as Player.move
\* has left it, on failure too
moveExecute(g, gm, dir) ==
    IF dir \notin Direction THEN Failure(gm, "invalid_direction")
    ELSE LET moved == move(gm.player, dir, g, gm.blockers)
             gm1 == [gm EXCEPT !.player = moved.player]
         IN  IF moved.ok
             THEN Success(gm1)
             ELSE LET blocker == getBlocker(gm1.blockers,
                                            gm1.player.position, dir)
                  IN  IF blocker # <<>>
                      THEN FailureBlocked(gm1, blocker[1])
                      ELSE Failure(gm1, "wall")

\* a look that gives the exit away whether it is revealed or not
lookExecuteAlwaysDiscloses(g, gm) ==
    LET pos == gm.player.position
        collectible == getCollectible(gm.collectibles, pos)
    IN  [position |-> pos,
         openDirections |-> openDirections(g, gm.blockers, pos),
         blockedDirections |->
             [dir \in {d \in Direction :
                          ~hasWall(g, pos, d)
                          /\ getBlocker(gm.blockers, pos, d) # <<>>} |->
                 getBlocker(gm.blockers, pos, dir)[1]],
         collectibleHere |-> collectible,
         inventory |-> gm.player.inventory,
         atExit |-> isExit(pos),
         exitPosition |-> <<Exit>>,
         mazeSize |-> <<rows, cols>>,
         moveCount |-> gm.player.moveCount]

\* createLookTool.execute: what look reports.  exitPosition is <<exit>>
\* where the code gives the coordinates of the exit and <<>> where it
\* gives the text "unknown"; collectibleHere is <<>> for null
lookExecute(g, gm) ==
    LET pos == gm.player.position
        collectible == getCollectible(gm.collectibles, pos)
        exitRevealed == isRevealed(gm.revealed, Exit)
    IN  [position |-> pos,
         openDirections |-> openDirections(g, gm.blockers, pos),
         blockedDirections |->
             [dir \in {d \in Direction :
                          ~hasWall(g, pos, d)
                          /\ getBlocker(gm.blockers, pos, d) # <<>>} |->
                 getBlocker(gm.blockers, pos, dir)[1]],
         collectibleHere |-> collectible,
         inventory |-> gm.player.inventory,
         atExit |-> isExit(pos),
         exitPosition |-> IF exitRevealed THEN <<Exit>> ELSE <<>>,
         mazeSize |-> <<rows, cols>>,
         moveCount |-> gm.player.moveCount]

\* a pickup that leaves the collectible registered on the cell
pickupExecuteKeepsItem(gm) ==
    LET pos == gm.player.position
        collectible == getCollectible(gm.collectibles, pos)
    IN  IF collectible = <<>> THEN Failure(gm, "no_item_here")
        ELSE IF gm.player.inventory # NULL THEN Failure(gm, "hands_full")
        ELSE Success([gm EXCEPT
                 !.player = pickup(gm.player, collectible[1]).player])

\* createPickupTool.execute
pickupExecute(gm) ==
    LET pos == gm.player.position
        collectible == getCollectible(gm.collectibles, pos)
    IN  IF collectible = <<>> THEN Failure(gm, "no_item_here")
        ELSE IF gm.player.inventory # NULL THEN Failure(gm, "hands_full")
        ELSE Success([gm EXCEPT
                 !.player = pickup(gm.player, collectible[1]).player,
                 !.collectibles = removeCollectible(gm.collectibles, pos)])

\* a drop that empties the inventory and puts nothing on the cell
dropExecuteDiscards(gm) ==
    LET pos == gm.player.position
    IN  IF gm.player.inventory = NULL THEN Failure(gm, "not_carrying")
        ELSE IF getCollectible(gm.collectibles, pos) # <<>>
        THEN Failure(gm, "cell_occupied")
        ELSE Success([gm EXCEPT !.player = drop(gm.player).player])

\* a drop that does not look at what lies on the cell
dropExecuteOverwrites(gm) ==
    LET pos == gm.player.position
    IN  IF gm.player.inventory = NULL THEN Failure(gm, "not_carrying")
        ELSE LET d == drop(gm.player)
             IN  Success([gm EXCEPT
                     !.player = d.player,
                     !.collectibles =
                         addCollectible(gm.collectibles, d.item, pos)])

\* createDropTool.execute
dropExecute(gm) ==
    LET pos == gm.player.position
    IN  IF gm.player.inventory = NULL THEN Failure(gm, "not_carrying")
        ELSE IF getCollectible(gm.collectibles, pos) # <<>>
        THEN Failure(gm, "cell_occupied")
        ELSE LET d == drop(gm.player)
             IN  Success([gm EXCEPT
                     !.player = d.player,
                     !.collectibles =
                         addCollectible(gm.collectibles, d.item, pos)])

\* a use that removes the blocker on the player's side only
removeNearSide(b, pos, dir) == removeBlocker(b, pos, dir)

\* createUseTool.execute, lines 79-87: the blocker leaves both sides
removeBothSides(b, pos, dir) ==
    LET b1 == removeBlocker(b, pos, dir)
        neighborPos == neighbor(pos, dir)
    IN  IF neighborPos # <<>>
        THEN removeBlocker(b1, neighborPos[1], OPPOSITE_DIRECTION[dir])
        ELSE b1

\* a use that does not run the reveal again
useExecuteNoReveal(g, gm, dir) ==
    IF dir \notin Direction THEN Failure(gm, "invalid_direction")
    ELSE IF gm.player.inventory = NULL THEN Failure(gm, "not_holding")
    ELSE LET pos == gm.player.position
             blocker == getBlocker(gm.blockers, pos, dir)
         IN  IF blocker = <<>> THEN Failure(gm, "no_blocker")
             ELSE LET used == useItem(gm.player, blocker[1])
                  IN  IF ~used.ok
                      THEN Failure([gm EXCEPT !.player = used.player],
                                   "cannot_clear")
                      ELSE Success([gm EXCEPT
                              !.player = used.player,
                              !.blockers =
                                  removeBothSides(gm.blockers, pos, dir)])

\* createUseTool.execute; the player is as Player.useItem has left it, on
\* failure too
useExecute(g, gm, dir) ==
    IF dir \notin Direction THEN Failure(gm, "invalid_direction")
    ELSE IF gm.player.inventory = NULL THEN Failure(gm, "not_holding")
    ELSE LET pos == gm.player.position
             blocker == getBlocker(gm.blockers, pos, dir)
         IN  IF blocker = <<>> THEN Failure(gm, "no_blocker")
             ELSE LET used == useItem(gm.player, blocker[1])
                  IN  IF ~used.ok
                      THEN Failure([gm EXCEPT !.player = used.player],
                                   "cannot_clear")
                      ELSE LET b2 == removeBothSides(gm.blockers, pos, dir)
                           IN  Success([gm EXCEPT
                                   !.player = used.player,
                                   !.blockers = b2,
                                   !.revealed =
                                       revealFrom(g, b2, gm.revealed, pos)])

----------------------------------------------------------------------------
(* RecursiveBacktracker *)

unvisitedNeighbors(pos, vis) ==
    SelectSeq(DirOrder, LAMBDA dir :
        inBounds(Step(pos, dir)) /\ Step(pos, dir) \notin vis)

----------------------------------------------------------------------------
(* ItemPlacer *)

BLOCKER_PAIRS ==
    << [blockerType |-> "door_red",   collectibleType |-> "key_red"],
       [blockerType |-> "door_blue",  collectibleType |-> "key_blue"],
       [blockerType |-> "door_green", collectibleType |-> "key_green"],
       [blockerType |-> "rock",       collectibleType |-> "dynamite"] >>

MAX_ATTEMPTS == 20

Min(a, b) == IF a < b THEN a ELSE b

Max(a, b) == IF a > b THEN a ELSE b

\* a blocker count without its lower clamp
blockerCountOfUnclamped(totalCells) == Min(4, totalCells \div 30)

\* ItemPlacer.place, line 53
blockerCountOf(totalCells) == Min(4, Max(2, totalCells \div 30))

\* the orders in which a set of indices can be drawn
RECURSIVE Orders(_)
Orders(S) ==
    IF S = {} THEN {<<>>}
    ELSE UNION {{<<x>> \o p : p \in Orders(S \ {x})} : x \in S}

\* shuffle(arr): every permutation of arr is a possible outcome
shuffle(arr) ==
    {[i \in 1 .. Len(arr) |-> arr[p[i]]] : p \in Orders(1 .. Len(arr))}

\* a clearItems that leaves the collectibles where they are
clearCollectiblesKeep(c) == c

\* clearItems, first loop: removeCollectible for every collectible
RECURSIVE clearCollectibles(_)
clearCollectibles(c) ==
    IF DOMAIN c = {} THEN c
    ELSE clearCollectibles(removeCollectible(c, CHOOSE pos \in DOMAIN c : TRUE))

\* clearItems, second loop: removeBlocker for every blocker
RECURSIVE clearBlockers(_)
clearBlockers(b) ==
    IF DOMAIN b = {} THEN b
    ELSE LET k == CHOOSE k \in DOMAIN b : TRUE
         IN  clearBlockers(removeBlocker(b, k[1], k[2]))

\* the for loop over the directions in bfsDistances
RECURSIVE bfsDistancesDirs(_, _, _, _, _, _)
bfsDistancesDirs(g, current, currentDist, dirs, queue, dist) ==
    IF dirs = <<>> THEN [queue |-> queue, dist |-> dist]
    ELSE LET dir == Head(dirs)
             next == neighbor(current, dir)
         IN  IF hasWall(g, current, dir) \/ next = <<>>
                \/ next[1] \in DOMAIN dist
             THEN bfsDistancesDirs(g, current, currentDist, Tail(dirs),
                                   queue, dist)
             ELSE bfsDistancesDirs(g, current, currentDist, Tail(dirs),
                                   Append(queue, next[1]),
                                   MapSet(dist, next[1], currentDist + 1))

\* one iteration of the while loop of bfsDistances, on its locals
bfsDistancesStep(g, st) ==
    LET current == Head(st.queue)
    IN  bfsDistancesDirs(g, current, st.dist[current], DirOrder,
                         Tail(st.queue), st.dist)

\* the while loop of bfsDistances, for at most n iterations
RECURSIVE bfsDistancesLoop(_, _, _)
bfsDistancesLoop(g, st, n) ==
    IF n = 0 \/ st.queue = <<>> THEN st
    ELSE IF n = 1 THEN bfsDistancesStep(g, st)
    ELSE bfsDistancesLoop(g, bfsDistancesLoop(g, st, n \div 2),
                          n - n \div 2)

\* a cell enters the queue once, when it enters dist: the loop ends within
\* as many iterations as the grid has cells
bfsDistances(g, start) ==
    bfsDistancesLoop(g, [queue |-> <<start>>,
                         dist |-> MapSet(EmptyMap, start, 0)],
                     Cardinality(DOMAIN g)).dist

\* one iteration of the path reconstruction of findShortestPath: parent[k]
\* is <<>> for the start (null) and <<p>> for a cell entered from p
reconstructStep(parent, start, st) ==
    LET entry == parent[st.key]
    IN  IF entry # <<>>
        THEN [key |-> entry[1], path |-> <<entry[1]>> \o st.path,
              done |-> FALSE]
        ELSE [key |-> st.key, path |-> <<start>> \o st.path, done |-> TRUE]

\* the reconstruction loop, for at most n iterations
RECURSIVE reconstructLoop(_, _, _, _)
reconstructLoop(parent, start, st, n) ==
    IF n = 0 \/ st.done THEN st
    ELSE IF n = 1 THEN reconstructStep(parent, start, st)
    ELSE reconstructLoop(parent, start,
                         reconstructLoop(parent, start, st, n \div 2),
                         n - n \div 2)

\* the loop walks the parents of distinct cells and breaks at the start
reconstruct(parent, start, end) ==
    reconstructLoop(parent, start,
                    [key |-> end, path |-> <<>>, done |-> FALSE],
                    Cardinality(DOMAIN parent)).path

\* a path search that does not ask for walls
RECURSIVE findShortestPathDirsThroughWalls(_, _, _, _, _)
findShortestPathDirsThroughWalls(g, current, dirs, queue, parent) ==
    IF dirs = <<>> THEN [queue |-> queue, parent |-> parent]
    ELSE LET dir == Head(dirs)
             next == neighbor(current, dir)
         IN  IF next = <<>> \/ next[1] \in DOMAIN parent
             THEN findShortestPathDirsThroughWalls(g, current, Tail(dirs),
                                                   queue, parent)
             ELSE findShortestPathDirsThroughWalls(g, current, Tail(dirs),
                      Append(queue, next[1]),
                      MapSet(parent, next[1], <<current>>))

\* the for loop over the directions in findShortestPath
RECURSIVE findShortestPathDirs(_, _, _, _, _)
findShortestPathDirs(g, current, dirs, queue, parent) ==
    IF dirs = <<>> THEN [queue |-> queue, parent |-> parent]
    ELSE LET dir == Head(dirs)
             next == neighbor(current, dir)
         IN  IF hasWall(g, current, dir) \/ next = <<>>
                \/ next[1] \in DOMAIN parent
             THEN findShortestPathDirs(g, current, Tail(dirs), queue, parent)
             ELSE findShortestPathDirs(g, current, Tail(dirs),
                                       Append(queue, next[1]),
                                       MapSet(parent, next[1], <<current>>))

\* one iteration of the while loop of findShortestPath, on its locals;
\* found is set where the code builds the path and returns
findShortestPathStep(g, end, st) ==
    LET current == Head(st.queue)
    IN  IF current = end
        THEN [queue |-> st.queue, parent |-> st.parent, found |-> TRUE]
        ELSE LET r == findShortestPathDirs(g, current, DirOrder,
                                           Tail(st.queue), st.parent)
             IN  [queue |-> r.queue, parent |-> r.parent, found |-> FALSE]

\* the while loop of findShortestPath, for at most n iterations
RECURSIVE findShortestPathLoop(_, _, _, _)
findShortestPathLoop(g, end, st, n) ==
    IF n = 0 \/ st.found \/ st.queue = <<>> THEN st
    ELSE IF n = 1 THEN findShortestPathStep(g, end, st)
    ELSE findShortestPathLoop(g, end,
                              findShortestPathLoop(g, end, st, n \div 2),
                              n - n \div 2)

\* <<>> is null, <<path>> is the path found.  A cell enters the queue once,
\* when it enters parent: the loop ends within as many iterations as the
\* grid has cells
findShortestPath(g, start, end) ==
    LET st == findShortestPathLoop(g, end,
                  [queue |-> <<start>>,
                   parent |-> MapSet(EmptyMap, start, <<>>),
                   found |-> FALSE],
                  Cardinality(DOMAIN g))
    IN  IF ~st.found THEN <<>>
        ELSE LET path == Append(reconstruct(st.parent, start, end), end)
             IN  IF Len(path) > 1 /\ path[1] = path[2]
                 THEN <<Tail(path)>>
                 ELSE <<path>>

directionBetween(from, to) ==
    LET hits == SelectSeq(DirOrder, LAMBDA dir : Step(from, dir) = to)
    IN  IF hits # <<>> THEN <<hits[1]>> ELSE <<>>

\* the passages of a path: one for each pair of consecutive cells between
\* which directionBetween finds a direction
pathToPassages(path) ==
    LET steps == [i \in 1 .. Len(path) - 1 |->
                     [pos |-> path[i],
                      dir |-> directionBetween(path[i], path[i + 1])]]
        kept == SelectSeq(steps, LAMBDA e : e.dir # <<>>)
    IN  [i \in 1 .. Len(kept) |-> [pos |-> kept[i].pos, dir |-> kept[i].dir[1]]]

\* an assignment that draws every pair at random
assignBlockerTypesAllRandom(count) ==
    {[i \in 1 .. count |-> BLOCKER_PAIRS[fill[i]]] :
        fill \in [1 .. count -> 1 .. Len(BLOCKER_PAIRS)]}

\* every outcome of assignBlockerTypes(count)
assignBlockerTypes(count) ==
    IF count = 0 THEN {<<>>}
    ELSE IF count = 1
    THEN {<<BLOCKER_PAIRS[i]>> : i \in 1 .. Len(BLOCKER_PAIRS)}
    ELSE UNION {shuffle(<<BLOCKER_PAIRS[4], BLOCKER_PAIRS[doorIndex]>>
                        \o [i \in 1 .. count - 2 |-> BLOCKER_PAIRS[fill[i]]]) :
                  doorIndex \in 1 .. 3,
                  fill \in [1 .. count - 2 -> 1 .. Len(BLOCKER_PAIRS)]}

\* candidate cells without the skip of the start cell
collectibleCandidatesWithStart(c, distances, blockerDist) ==
    {pos \in DOMAIN distances :
        /\ ~(distances[pos] >= blockerDist)
        /\ ~isExit(pos)
        /\ getCollectible(c, pos) = <<>>}

\* candidate cells that may be as far from the start as the gate
collectibleCandidatesAtGate(c, distances, blockerDist) ==
    {pos \in DOMAIN distances :
        /\ ~(distances[pos] > blockerDist)
        /\ distances[pos] # 0
        /\ ~isExit(pos)
        /\ getCollectible(c, pos) = <<>>}

\* the candidate cells of findCollectiblePosition
collectibleCandidates(c, distances, blockerDist) ==
    {pos \in DOMAIN distances :
        /\ ~(distances[pos] >= blockerDist)
        /\ distances[pos] # 0
        /\ ~isExit(pos)
        /\ getCollectible(c, pos) = <<>>}

\* every outcome of findCollectiblePosition: {<<>>} is null
findCollectiblePosition(c, distances, blockerPos) ==
    IF blockerPos \notin DOMAIN distances THEN {<<>>}
    ELSE LET candidates ==
                 collectibleCandidates(c, distances, distances[blockerPos])
         IN  IF candidates = {} THEN {<<>>}
             ELSE {<<pos>> : pos \in candidates}


\* a search that crosses a gated passage without testing the held item
canCrossUnchecked(inv, blockerType) == TRUE

\* isSolvable, line 370: the held item clears the blocker
canCross(inv, blockerType) == inv # NULL /\ canUnlock(inv, blockerType)

\* a direction loop that enqueues a plain move without asking visited
RECURSIVE isSolvableDirsUnmarked(_, _, _, _, _, _)
isSolvableDirsUnmarked(g, b, e, dirs, queue, seen) ==
    IF dirs = <<>> THEN [queue |-> queue, seen |-> seen]
    ELSE LET dir == Head(dirs)
             next == neighbor(e.pos, dir)
             blocker == getBlocker(b, e.pos, dir)
         IN  IF hasWall(g, e.pos, dir) \/ next = <<>>
             THEN isSolvableDirsUnmarked(g, b, e, Tail(dirs), queue, seen)
             ELSE IF blocker # <<>>
             THEN IF /\ canCross(e.inv, blocker[1])
                     /\ <<next[1], NULL>> \notin seen
                  THEN isSolvableDirsUnmarked(g, b, e, Tail(dirs),
                           Append(queue,
                               [pos |-> next[1], inv |-> NULL,
                                pickedUp |-> e.pickedUp,
                                plan |-> e.plan \o <<<<"use", dir>>,
                                                     <<"move", dir>>>>]),
                           seen \cup {<<next[1], NULL>>})
                  ELSE isSolvableDirsUnmarked(g, b, e, Tail(dirs), queue, seen)
             ELSE isSolvableDirsUnmarked(g, b, e, Tail(dirs),
                      Append(queue,
                          [pos |-> next[1], inv |-> e.inv,
                           pickedUp |-> e.pickedUp,
                           plan |-> Append(e.plan, <<"move", dir>>)]),
                      seen \cup {<<next[1], e.inv>>})

\* the for loop over the directions in isSolvable; a queue entry carries,
\* besides state and pickedUp, the commands that lead to it (plan)
RECURSIVE isSolvableDirs(_, _, _, _, _, _)
isSolvableDirs(g, b, e, dirs, queue, seen) ==
    IF dirs = <<>> THEN [queue |-> queue, seen |-> seen]
    ELSE LET dir == Head(dirs)
             next == neighbor(e.pos, dir)
             blocker == getBlocker(b, e.pos, dir)
         IN  IF hasWall(g, e.pos, dir) \/ next = <<>>
             THEN isSolvableDirs(g, b, e, Tail(dirs), queue, seen)
             ELSE IF blocker # <<>>
             THEN IF /\ canCross(e.inv, blocker[1])
                     /\ <<next[1], NULL>> \notin seen
                  THEN isSolvableDirs(g, b, e, Tail(dirs),
                           Append(queue,
                               [pos |-> next[1], inv |-> NULL,
                                pickedUp |-> e.pickedUp,
                                plan |-> e.plan \o <<<<"use", dir>>,
                                                     <<"move", dir>>>>]),
                           seen \cup {<<next[1], NULL>>})
                  ELSE isSolvableDirs(g, b, e, Tail(dirs), queue, seen)
             ELSE IF <<next[1], e.inv>> \notin seen
                  THEN isSolvableDirs(g, b, e, Tail(dirs),
                           Append(queue,
                               [pos |-> next[1], inv |-> e.inv,
                                pickedUp |-> e.pickedUp,
                                plan |-> Append(e.plan, <<"move", dir>>)]),
                           seen \cup {<<next[1], e.inv>>})
                  ELSE isSolvableDirs(g, b, e, Tail(dirs), queue, seen)

\* one iteration of the while loop of isSolvable, on its locals; done is
\* set where the code returns true
isSolvableStep(g, b, c, st) ==
    LET e == Head(st.queue)
        collectible == getCollectible(c, e.pos)
        pick == /\ collectible # <<>>
                /\ e.inv = NULL
                /\ e.pos \notin e.pickedUp
                /\ <<e.pos, collectible[1]>> \notin st.seen
        q1 == IF pick
              THEN Append(Tail(st.queue),
                       [pos |-> e.pos, inv |-> collectible[1],
                        pickedUp |-> e.pickedUp \cup {e.pos},
                        plan |-> Append(e.plan, <<"pickup", "">>)])
              ELSE Tail(st.queue)
        s1 == IF pick THEN st.seen \cup {<<e.pos, collectible[1]>>}
              ELSE st.seen
    IN  IF e.pos = Exit
        THEN [queue |-> st.queue, seen |-> st.seen, done |-> TRUE,
              plan |-> e.plan]
        ELSE LET r == isSolvableDirs(g, b, e, DirOrder, q1, s1)
             IN  [queue |-> r.queue, seen |-> r.seen, done |-> FALSE,
                  plan |-> <<>>]

\* the while loop of isSolvable, for at most n iterations
RECURSIVE isSolvableLoop(_, _, _, _, _)
isSolvableLoop(g, b, c, st, n) ==
    IF n = 0 \/ st.done \/ st.queue = <<>> THEN st
    ELSE IF n = 1 THEN isSolvableStep(g, b, c, st)
    ELSE isSolvableLoop(g, b, c,
                        isSolvableLoop(g, b, c, st, n \div 2),
                        n - n \div 2)

\* the search of isSolvable with the commands of the branch that reached
\* the exit.  A state (cell, held item) enters the queue once, when it
\* enters visited: the loop ends within as many iterations as there are
\* such states
isSolvableSearch(g, b, c) ==
    LET st == isSolvableLoop(g, b, c,
                  [queue |-> <<[pos |-> Start, inv |-> NULL,
                               pickedUp |-> {}, plan |-> <<>>]>>,
                   seen |-> {<<Start, NULL>>},
                   done |-> FALSE, plan |-> <<>>],
                  Cardinality(DOMAIN g) * (Cardinality(CollectibleType) + 1))
    IN  [ok |-> st.done, plan |-> st.plan]

isSolvable(g, b, c) == isSolvableSearch(g, b, c).ok

\* a tryPlace that registers the far side under the passage's own direction
addBlockerPairSameDir(b, type, pos, dir, neighborPos) ==
    addBlocker(addBlocker(b, type, pos, dir), type, neighborPos, dir)

\* tryPlace, lines 101-114: the blocker is registered on both sides of the
\* passage
addBlockerPair(b, type, pos, dir, neighborPos) ==
    addBlocker(addBlocker(b, type, pos, dir), type, neighborPos,
               OPPOSITE_DIRECTION[dir])

\* what an entry added by the i-th iteration of the loop of tryPlace holds
\* until the types of pairs[i] are filled in (at most four gates are asked
\* for)
PairTags == <<"#1", "#2", "#3", "#4">>

\* the for loop of tryPlace from its i-th selected passage on: the set of
\* boards it leaves over the cells drawn for the collectibles, with placed
\* FALSE where it returned false from inside the loop.  The pairs are
\* drawn independently of the cells: an entry the loop adds holds
\* PairTags[i] in place of the type, and withTypes fills in the types
RECURSIVE tryPlaceFrom(_, _, _, _, _, _)
tryPlaceFrom(g, distances, selected, i, b, c) ==
    IF i > Len(selected)
    THEN {[placed |-> TRUE, blockers |-> b, collectibles |-> c]}
    ELSE LET passage == selected[i]
             neighborPos == neighbor(passage.pos, passage.dir)
         IN  IF neighborPos = <<>>
             THEN tryPlaceFrom(g, distances, selected, i + 1, b, c)
             ELSE LET b2 == addBlockerPair(b, PairTags[i], passage.pos,
                                           passage.dir, neighborPos[1])
                  IN  UNION {
                        IF collectiblePos = <<>>
                        THEN {[placed |-> FALSE, blockers |-> b2,
                               collectibles |-> c]}
                        ELSE tryPlaceFrom(g, distances, selected, i + 1, b2,
                                 addCollectible(c, PairTags[i],
                                                collectiblePos[1])) :
                        collectiblePos \in
                          findCollectiblePosition(c, distances, passage.pos)}

\* the pair of the entry that holds tag
pairOf(tag, pairs) ==
    pairs[CHOOSE i \in 1 .. Len(PairTags) : PairTags[i] = tag]

\* the board of tryPlaceFrom with pair.blockerType and pair.collectibleType
\* of pair = pairs[i] for the entries the i-th iteration added; the
\* entries that were on the board before keep their types
withTypes(bd, pairs) ==
    LET tags == {PairTags[i] : i \in 1 .. Len(PairTags)}
    IN  [placed |-> bd.placed,
         blockers |->
             [k \in DOMAIN bd.blockers |->
                 IF bd.blockers[k] \in tags
                 THEN pairOf(bd.blockers[k], pairs).blockerType
                 ELSE bd.blockers[k]],
         collectibles |->
             [pos \in DOMAIN bd.collectibles |->
                 IF bd.collectibles[pos] \in tags
                 THEN pairOf(bd.collectibles[pos], pairs).collectibleType
                 ELSE bd.collectibles[pos]]]

\* candidates that leave no passage of the path out
candidatesOfAll(pathPassages) == pathPassages

\* the passages tryPlace may gate: the path's passages without the first
\* and the last when there are more than two
candidatesOf(pathPassages) ==
    IF Len(pathPassages) > 2
    THEN SubSeq(pathPassages, 2, Len(pathPassages) - 1)
    ELSE pathPassages

\* the sequences of n distinct indices among 1 .. m
RECURSIVE Draws(_, _)
Draws(S, n) ==
    IF n = 0 THEN {<<>>}
    ELSE UNION {{<<x>> \o p : p \in Draws(S \ {x}, n - 1)} : x \in S}

\* tryPlace, lines 88-92: the first n elements of the shuffled arr.  Of the
\* outcomes of the shuffle, those are taken that bring elements among the
\* first MaxDraw of arr to the front: all of them when arr has at most
\* MaxDraw elements
shuffledFront(arr, n) ==
    {[i \in 1 .. n |-> arr[p[i]]] :
        p \in Draws(1 .. Min(Len(arr), MaxDraw), n)}

\* tryPlace: the set of outcomes over the random choices; isSolvable is
\* asked of each board the loop has completed
tryPlace(g, b, c, blockerCount) ==
    LET distances == bfsDistances(g, Start)
        shortestPath == findShortestPath(g, Start, Exit)
    IN  IF shortestPath = <<>>
        THEN {[ok |-> FALSE, blockers |-> b, collectibles |-> c]}
        ELSE LET candidates == candidatesOf(pathToPassages(shortestPath[1]))
             IN  IF Len(candidates) = 0
                 THEN {[ok |-> FALSE, blockers |-> b, collectibles |-> c]}
                 ELSE LET n == Min(blockerCount, Len(candidates))
                          drawn ==
                              UNION {tryPlaceFrom(g, distances, selected,
                                                  1, b, c) :
                                     selected \in shuffledFront(candidates, n)}
                          boards ==
                              {withTypes(bd, pairs) :
                                  bd \in drawn,
                                  pairs \in assignBlockerTypes(n)}
                      IN  {[ok |-> bd.placed /\ isSolvable(g, bd.blockers,
                                                           bd.collectibles),
                            blockers |-> bd.blockers,
                            collectibles |-> bd.collectibles] : bd \in boards}

----------------------------------------------------------------------------
(* The state machine *)

Sizes == {s \in (1 .. MaxCells) \X (1 .. MaxCells) : s[1] * s[2] <= MaxCells}

\* positions handed to the board's operations, some of them out of bounds
Probes == (-1 .. rows) \X (-1 .. cols)

Init ==
    /\ rows = 0 /\ cols = 0
    /\ grid = EmptyMap
    /\ revealed = {}
    /\ collectibles = EmptyMap
    /\ blockers = EmptyMap
    /\ player = NoPlayer
    /\ won = FALSE
    /\ phase = "intro"
    /\ stack = <<>>
    /\ visited = {}
    /\ attempt = 0
    /\ animating = FALSE
    /\ awaiting = 0

\* new MazeBoard(rows, cols)
Construct(r, c) ==
    /\ phase = "intro"
    /\ rows' = r /\ cols' = c
    /\ grid' = buildGrid(r, c)
    /\ revealed' = {}
    /\ collectibles' = EmptyMap
    /\ blockers' = EmptyMap
    /\ phase' = "built"
    /\ UNCHANGED <<player, won, stack, visited, attempt, animating, awaiting>>

\* a newGame that hands the registries and the revealed set of the old board
\* to the new one
StartGameAgainKeepsBoard(r, c) ==
    /\ phase = "gameover"
    /\ rows' = r /\ cols' = c
    /\ grid' = buildGrid(r, c)
    /\ stack' = <<>> /\ visited' = {} /\ attempt' = 0
    /\ phase' = "built"
    /\ UNCHANGED <<revealed, collectibles, blockers, player, won, animating, awaiting>>

\* start_game in the game-over state: newGame up to new MazeBoard(rows,
\* cols).  The locals of generate and place are those of the new calls;
\* the player and won are the old ones until newGame replaces them
StartGameAgain(r, c) ==
    /\ phase = "gameover"
    /\ rows' = r /\ cols' = c
    /\ grid' = buildGrid(r, c)
    /\ revealed' = {}
    /\ collectibles' = EmptyMap
    /\ blockers' = EmptyMap
    /\ stack' = <<>> /\ visited' = {} /\ attempt' = 0
    /\ phase' = "built"
    /\ UNCHANGED <<player, won, animating, awaiting>>

\* a direct call of MazeBoard.removeWall on a board that is not carved by
\* the generator (the use the board's own tests make of it)
RemoveWallCall(pos, dir) ==
    /\ phase \in {"built", "grid"}
    /\ grid' = removeWall(grid, pos, dir)
    /\ phase' = "grid"
    /\ UNCHANGED <<rows, cols, revealed, collectibles, blockers, player, won,
                   stack, visited, attempt, animating, awaiting>>

\* a generate that does not mark the start cell visited
GenerateBeginUnmarked ==
    /\ phase = "built"
    /\ stack' = <<Start>>
    /\ visited' = {}
    /\ phase' = "carve"
    /\ UNCHANGED <<boardVars, player, won, attempt, animating, awaiting>>

\* RecursiveBacktracker.generate up to its loop
GenerateBegin ==
    /\ phase = "built"
    /\ stack' = <<Start>>
    /\ visited' = {Start}
    /\ phase' = "carve"
    /\ UNCHANGED <<boardVars, player, won, attempt, animating, awaiting>>

\* a loop that stops at the first dead end instead of backtracking
GenerateStepNoBacktrack ==
    /\ phase = "carve"
    /\ Len(stack) > 0
    /\ LET current == stack[Len(stack)]
           neighbors == unvisitedNeighbors(current, visited)
       IN  IF Len(neighbors) = 0
           THEN /\ stack' = <<>>
                /\ UNCHANGED <<grid, visited>>
           ELSE \E i \in 1 .. Len(neighbors) :
                   LET dir == neighbors[i]
                       next == Step(current, dir)
                   IN  /\ grid' = removeWall(grid, current, dir)
                       /\ visited' = visited \cup {next}
                       /\ stack' = Append(stack, next)
    /\ UNCHANGED <<rows, cols, revealed, collectibles, blockers, player, won,
                   phase, attempt, animating, awaiting>>

\* a loop that leaves a dead end on the stack
GenerateStepKeepsTop ==
    /\ phase = "carve"
    /\ Len(stack) > 0
    /\ LET current == stack[Len(stack)]
           neighbors == unvisitedNeighbors(current, visited)
       IN  IF Len(neighbors) = 0
           THEN UNCHANGED <<grid, visited, stack>>
           ELSE \E i \in 1 .. Len(neighbors) :
                   LET dir == neighbors[i]
                       next == Step(current, dir)
                   IN  /\ grid' = removeWall(grid, current, dir)
                       /\ visited' = visited \cup {next}
                       /\ stack' = Append(stack, next)
    /\ UNCHANGED <<rows, cols, revealed, collectibles, blockers, player, won,
                   phase, attempt, animating, awaiting>>

\* one iteration of the loop of RecursiveBacktracker.generate
GenerateStep ==
    /\ phase = "carve"
    /\ Len(stack) > 0
    /\ LET current == stack[Len(stack)]
           neighbors == unvisitedNeighbors(current, visited)
       IN  IF Len(neighbors) = 0
           THEN /\ stack' = SubSeq(stack, 1, Len(stack) - 1)
                /\ UNCHANGED <<grid, visited>>
           ELSE \E i \in 1 .. Len(neighbors) :
                   LET dir == neighbors[i]
                       next == Step(current, dir)
                   IN  /\ grid' = removeWall(grid, current, dir)
                       /\ visited' = visited \cup {next}
                       /\ stack' = Append(stack, next)
    /\ UNCHANGED <<rows, cols, revealed, collectibles, blockers, player, won,
                   phase, attempt, animating, awaiting>>

\* ItemPlacer.place up to its first tryPlace: the generator has returned
PlaceBegin ==
    /\ phase = "carve"
    /\ Len(stack) = 0
    /\ attempt' = 0
    /\ collectibles' = clearCollectibles(collectibles)
    /\ blockers' = clearBlockers(blockers)
    /\ phase' = "place"
    /\ UNCHANGED <<rows, cols, grid, revealed, player, won, stack, visited,
                   animating, awaiting>>

\* a place that returns after its first tryPlace whatever it reports
TryPlaceReturnsAnyway ==
    /\ phase = "place"
    /\ \E out \in tryPlace(grid, blockers, collectibles,
                           blockerCountOf(rows * cols)) :
          /\ blockers' = out.blockers
          /\ collectibles' = out.collectibles
          /\ phase' = "placed"
    /\ UNCHANGED <<rows, cols, grid, revealed, player, won, stack, visited,
                   attempt, animating, awaiting>>

\* one call of tryPlace from the loop of ItemPlacer.place; place returns
\* when it reports success
TryPlace ==
    /\ phase = "place"
    /\ \E out \in tryPlace(grid, blockers, collectibles,
                           blockerCountOf(rows * cols)) :
          /\ blockers' = out.blockers
          /\ collectibles' = out.collectibles
          /\ phase' = IF out.ok THEN "placed" ELSE "retry"
    /\ UNCHANGED <<rows, cols, grid, revealed, player, won, stack, visited,
                   attempt, animating, awaiting>>

\* a place without the clearItems of its fallback
RetryNoFallbackClear ==
    /\ phase = "retry"
    /\ attempt' = attempt + 1
    /\ IF attempt + 1 < MAX_ATTEMPTS
       THEN /\ collectibles' = clearCollectibles(collectibles)
            /\ blockers' = clearBlockers(blockers)
            /\ phase' = "place"
       ELSE /\ UNCHANGED <<collectibles, blockers>>
            /\ phase' = "placed"
    /\ UNCHANGED <<rows, cols, grid, revealed, player, won, stack, visited,
                   animating, awaiting>>

\* after a failed tryPlace: attempt++ and the clearItems that follows, the
\* one of the next iteration or the fallback after the loop
Retry ==
    /\ phase = "retry"
    /\ attempt' = attempt + 1
    /\ collectibles' = clearCollectibles(collectibles)
    /\ blockers' = clearBlockers(blockers)
    /\ phase' = IF attempt + 1 < MAX_ATTEMPTS THEN "place" ELSE "placed"
    /\ UNCHANGED <<rows, cols, grid, revealed, player, won, stack, visited,
                   animating, awaiting>>

\* the rest of Game.newGame, then setState(GameplayState) and its enter
EnterGameplay ==
    /\ phase = "placed"
    /\ player' = NewPlayer(Start)
    /\ won' = FALSE
    /\ revealed' = revealFrom(grid, blockers, revealed, Start)
    /\ phase' = "gameplay"
    /\ UNCHANGED <<rows, cols, grid, collectibles, blockers, stack, visited,
                   attempt, animating, awaiting>>

\* what a command is given as its direction: the four directions and a
\* string that is none of them
DirectionInputs == Direction \cup {"up"}

CurrentGame == Game(player, collectibles, blockers, revealed)

\* a move command that takes down the wall it runs into
MoveCommandBreaksWall(dir) ==
    /\ phase = "gameplay"
    /\ player.moveCount < MaxMoves
    /\ ~animating \/ awaiting < MaxAwaiting
    /\ LET r == moveExecute(grid, CurrentGame, dir)
       IN  /\ player' = r.game.player
           /\ animating' = IF r.success THEN TRUE ELSE animating
           /\ awaiting' = IF r.success THEN awaiting + 1 ELSE awaiting
           /\ grid' = IF ~r.success /\ r.reason = "wall"
                      THEN removeWall(grid, player.position, dir)
                      ELSE grid
    /\ UNCHANGED <<rows, cols, revealed, collectibles, blockers, won, phase,
                   stack, visited, attempt>>

\* the move command up to its await of the animation
MoveCommand(dir) ==
    /\ phase = "gameplay"
    /\ player.moveCount < MaxMoves
    /\ ~animating \/ awaiting < MaxAwaiting
    /\ LET r == moveExecute(grid, CurrentGame, dir)
       IN  /\ player' = r.game.player
           /\ animating' = IF r.success THEN TRUE ELSE animating
           /\ awaiting' = IF r.success THEN awaiting + 1 ELSE awaiting
    /\ UNCHANGED <<boardVars, won, phase, stack, visited, attempt>>

\* PlayerView.tick completes the animation and calls resolveAnim, the
\* resolver of the promise the last animateTo returned: the move command
\* that awaits that promise resumes and reveals from the player's
\* position.  A tick comes between commands, never inside the synchronous
\* newGame
AnimationDone ==
    /\ animating
    /\ phase \in {"gameplay", "gameover"}
    /\ animating' = FALSE
    /\ awaiting' = awaiting - 1
    /\ revealed' = revealFrom(grid, blockers, revealed, player.position)
    /\ UNCHANGED <<rows, cols, grid, collectibles, blockers, player, won,
                   phase, stack, visited, attempt>>

\* a pickup that takes the item at once and leaves its removal from the
\* board for later
PickupCommandRemovesLater ==
    /\ phase = "gameplay"
    /\ LET r == pickupExecute(CurrentGame)
       IN  player' = r.game.player
    /\ UNCHANGED <<boardVars, won, phase, stack, visited, attempt, animating,
                   awaiting>>

PickupCommand ==
    /\ phase = "gameplay"
    /\ LET r == pickupExecute(CurrentGame)
       IN  /\ player' = r.game.player
           /\ collectibles' = r.game.collectibles
    /\ UNCHANGED <<rows, cols, grid, revealed, blockers, won, phase, stack,
                   visited, attempt, animating, awaiting>>

DropCommand ==
    /\ phase = "gameplay"
    /\ LET r == dropExecute(CurrentGame)
       IN  /\ player' = r.game.player
           /\ collectibles' = r.game.collectibles
    /\ UNCHANGED <<rows, cols, grid, revealed, blockers, won, phase, stack,
                   visited, attempt, animating, awaiting>>

UseCommand(dir) ==
    /\ phase = "gameplay"
    /\ LET r == useExecute(grid, CurrentGame, dir)
       IN  /\ player' = r.game.player
           /\ blockers' = r.game.blockers
           /\ revealed' = r.game.revealed
    /\ UNCHANGED <<rows, cols, grid, collectibles, won, phase, stack, visited,
                   attempt, animating, awaiting>>

\* an update that enters the game-over state and leaves won as it is
UpdateForgetsWon ==
    /\ phase = "gameplay"
    /\ isExit(player.position)
    /\ phase' = "gameover"
    /\ UNCHANGED <<boardVars, player, won, stack, visited, attempt, animating,
                   awaiting>>

\* GameplayState.update on a frame
Update ==
    /\ phase = "gameplay"
    /\ isExit(player.position)
    /\ won' = TRUE
    /\ phase' = "gameover"
    /\ UNCHANGED <<boardVars, player, stack, visited, attempt, animating,
                   awaiting>>

Next ==
    \/ \E s \in Sizes : Construct(s[1], s[2])
    \/ \E pos \in Probes, dir \in Direction : RemoveWallCall(pos, dir)
    \/ GenerateBegin
    \/ GenerateStep
    \/ PlaceBegin
    \/ TryPlace
    \/ Retry
    \/ EnterGameplay
    \/ \E dir \in DirectionInputs : MoveCommand(dir)
    \/ AnimationDone
    \/ PickupCommand
    \/ DropCommand
    \/ \E dir \in DirectionInputs : UseCommand(dir)
    \/ Update

Spec == Init /\ [][Next]_vars

\* the building of a round alone (construct, carve, place), on boards of at
\* most MaxBuildCells cells
BuildSizes ==
    {s \in (1 .. MaxBuildCells) \X (1 .. MaxBuildCells) :
        s[1] * s[2] <= MaxBuildCells}

NextBuild ==
    \/ \E s \in BuildSizes : Construct(s[1], s[2])
    \/ GenerateBegin
    \/ GenerateStep
    \/ PlaceBegin
    \/ TryPlace
    \/ Retry

SpecBuild == Init /\ [][NextBuild]_vars

\* the generator alone, on the boards of BuildSizes: generate is one
\* synchronous loop, so an iteration that can run does run
NextCarve ==
    \/ \E s \in BuildSizes : Construct(s[1], s[2])
    \/ GenerateBegin
    \/ GenerateStep

SpecCarve == Init /\ [][NextCarve]_vars /\ WF_vars(GenerateStep)

\* the building of a round on the boards of SpecBuild and on a corridor of
\* WideCols cells, the smallest board on which place asks for three gates
WideSizes == BuildSizes \cup {<<1, WideCols>>}

NextWide ==
    \/ \E s \in WideSizes : Construct(s[1], s[2])
    \/ GenerateBegin
    \/ GenerateStep
    \/ PlaceBegin
    \/ TryPlace
    \/ Retry

SpecWide == Init /\ [][NextWide]_vars

\* round after round: start_game in the intro, the round, start_game in
\* the game-over state, on the board of one cell and on a corridor on
\* which place sets gates
RoundSizes == {<<1, 1>>, <<1, MaxCells>>}

NextRounds ==
    \/ \E s \in RoundSizes : Construct(s[1], s[2])
    \/ \E s \in RoundSizes : StartGameAgain(s[1], s[2])
    \/ GenerateBegin
    \/ GenerateStep
    \/ PlaceBegin
    \/ TryPlace
    \/ Retry
    \/ EnterGameplay
    \/ \E dir \in DirectionInputs : MoveCommand(dir)
    \/ AnimationDone
    \/ PickupCommand
    \/ DropCommand
    \/ \E dir \in DirectionInputs : UseCommand(dir)
    \/ Update

SpecRounds == Init /\ [][NextRounds]_vars

\* the rounds with the ticker running: a frame update that can be made is
\* made
SpecFrames == Init /\ [][NextRounds]_vars /\ WF_vars(Update)

----------------------------------------------------------------------------
(* Properties *)

\* the generator has returned
CarvingDone ==
    \/ phase = "carve" /\ Len(stack) = 0
    \/ phase \in {"place", "retry", "placed", "gameplay", "gameover"}

Size(m) == Cardinality(DOMAIN m)

\* the cells one reaches from the cells of S over passages whose wall is
\* removed
RECURSIVE OpenReach(_)
OpenReach(S) ==
    LET T == S \cup {q \in Cells :
                       \E p \in S, d \in Direction :
                          ~grid[p][d] /\ Step(p, d) = q}
    IN  IF T = S THEN S ELSE OpenReach(T)

\* the commands of a plan, run one after the other by the runtime's rules;
\* ok when each of them reports success
RECURSIVE RunPlan(_, _, _)
RunPlan(g, gm, plan) ==
    IF plan = <<>> THEN [ok |-> TRUE, game |-> gm]
    ELSE LET cmd == Head(plan)
             r == CASE cmd[1] = "move"   -> moveExecute(g, gm, cmd[2])
                    [] cmd[1] = "pickup" -> pickupExecute(gm)
                    [] cmd[1] = "drop"   -> dropExecute(gm)
                    [] cmd[1] = "use"    -> useExecute(g, gm, cmd[2])
         IN  IF r.success THEN RunPlan(g, r.game, Tail(plan))
             ELSE [ok |-> FALSE, game |-> r.game]

\* C1: on the board place returns, the commands of the branch by which the
\* solvability search reaches the exit are a sequence of move, pickup and
\* use commands that all succeed at runtime, from a player at (0,0) with
\* empty hands, and end on the exit cell.
C1_PlacedBoardIsPlayable ==
    phase = "placed" =>
        LET found == isSolvableSearch(grid, blockers, collectibles)
            run == RunPlan(grid,
                       Game(NewPlayer(Start), collectibles, blockers, {}),
                       found.plan)
        IN  /\ found.ok
            /\ run.ok
            /\ run.game.player.position = Exit

\* place has returned a board with gates on it
C1_Witness == phase = "placed" /\ Size(blockers) > 0

\* C2: when place returns, after a successful attempt or after the
\* fallback, isSolvable holds of the board.
C2_ReturnedBoardPassesSearch ==
    phase = "placed" => isSolvable(grid, blockers, collectibles)

\* place has returned through its fallback, on a board with a passage
C2_Witness ==
    phase = "placed" /\ attempt = MAX_ATTEMPTS /\ rows * cols > 1

\* C3: once generate has returned, every cell is reached from (0,0) over
\* passages whose wall is removed.
C3_AllCellsReachable == CarvingDone => OpenReach({Start}) = Cells

\* generate has just returned on a 2 x 3 board
C3_Witness == phase = "carve" /\ Len(stack) = 0 /\ rows = 2 /\ cols = 3

\* the passages with the wall removed, each counted from its north or west
\* cell
OpenPassages ==
    Cardinality({pd \in Cells \X {"south", "east"} : ~grid[pd[1]][pd[2]]})

\* C4: once generate has returned, the open passages number rows*cols - 1,
\* and the cell of a 1 x 1 board has its four walls.
C4_SpanningTree ==
    CarvingDone =>
        /\ OpenPassages = rows * cols - 1
        /\ rows * cols = 1 => \A d \in Direction : grid[Start][d]

\* generate has returned on a board where it had to carve around a square
C4_Witness == phase = "place" /\ rows = 2 /\ cols = 2

\* C5: in every attempt of place and on the board it returns, no
\* collectible is on the start cell or on the exit cell.
C5_NoCollectibleOnStartOrExit ==
    phase \in {"place", "retry", "placed"} =>
        /\ Start \notin DOMAIN collectibles
        /\ Exit \notin DOMAIN collectibles

\* an attempt after the first has put a collectible on the board
C5_Witness ==
    phase \in {"retry", "placed"} /\ attempt > 0 /\ Size(collectibles) > 0

\* C6: place calls tryPlace at most MAX_ATTEMPTS times, and the board it
\* returns either passed isSolvable with k >= 1 collectibles and 2k blocker
\* entries, or holds no collectible and no blocker.
C6_PlaceReturnsCleanBoard ==
    /\ attempt <= MAX_ATTEMPTS
    /\ phase \in {"place", "retry"} => attempt < MAX_ATTEMPTS
    /\ phase = "placed" =>
          \/ /\ Size(collectibles) >= 1
             /\ Size(blockers) = 2 * Size(collectibles)
             /\ attempt < MAX_ATTEMPTS
             /\ isSolvable(grid, blockers, collectibles)
          \/ /\ Size(collectibles) = 0
             /\ Size(blockers) = 0

\* place has returned gates after attempts that failed
C6_Witness == phase = "placed" /\ attempt > 0 /\ Size(blockers) > 0

\* C7: the wall between two adjacent cells is the same from both sides.
C7_WallsMirrored ==
    \A p \in Cells, d \in Direction :
        Step(p, d) \in Cells =>
            grid[p][d] = grid[Step(p, d)][OPPOSITE_DIRECTION[d]]

\* removeWall has been called on a board outside the generator
C7_Witness == phase = "grid" /\ \E p \in Cells, d \in Direction : ~grid[p][d]

\* C8: removeWall(A, D) clears the flag of A toward D and the flag of the
\* neighbour toward the opposite direction and leaves every other flag as
\* it is; without a cell at A or a neighbour it changes nothing; and the
\* walls on the boundary of the grid are intact.
C8_RemoveWallFrame ==
    phase \in {"built", "grid", "carve"} =>
        /\ \A pos \in Probes, dir \in Direction :
              LET after == removeWall(grid, pos, dir)
                  next == Step(pos, dir)
              IN  IF pos \in Cells /\ next \in Cells
                  THEN /\ DOMAIN after = Cells
                       /\ ~after[pos][dir]
                       /\ ~after[next][OPPOSITE_DIRECTION[dir]]
                       /\ \A q \in Cells, e \in Direction :
                             <<q, e>> \notin
                                 {<<pos, dir>>,
                                  <<next, OPPOSITE_DIRECTION[dir]>>}
                             => after[q][e] = grid[q][e]
                  ELSE after = grid
        /\ \A p \in Cells, d \in Direction :
              Step(p, d) \notin Cells => grid[p][d]

\* removeWall calls have opened every passage of a board of four cells or
\* more
C8_Witness ==
    /\ phase = "grid"
    /\ rows * cols >= 4
    /\ \A p \in Cells, d \in Direction : Step(p, d) \in Cells => ~grid[p][d]

\* C9: a move toward dir succeeds exactly when the player's cell has no
\* wall toward dir, no blocker is registered there and the destination is
\* in bounds; it then puts the player on the adjacent cell and adds one to
\* moveCount; the inventory, the blockers and the collectibles stay.
C9_MoveContract ==
    phase = "gameplay" =>
        \A dir \in Direction :
            LET r == moveExecute(grid, CurrentGame, dir)
                pos == player.position
                dest == Step(pos, dir)
                free == /\ ~grid[pos][dir]
                        /\ <<pos, dir>> \notin DOMAIN blockers
                        /\ dest \in Cells
            IN  /\ r.success <=> free
                /\ move(player, dir, grid, blockers).ok <=> free
                /\ r.game.player =
                      IF free
                      THEN [position |-> dest,
                            moveCount |-> player.moveCount + 1,
                            inventory |-> player.inventory]
                      ELSE player
                /\ r.game.blockers = blockers
                /\ r.game.collectibles = collectibles

\* the player has moved and stands at a gated passage
C9_Witness ==
    /\ phase = "gameplay"
    /\ player.moveCount > 0
    /\ \E d \in Direction : <<player.position, d>> \in DOMAIN blockers

\* C10: use toward dir succeeds exactly when the player holds an item, a
\* blocker is registered at (position, dir) and the item unlocks it; it
\* then empties the inventory and removes the entries at (position, dir)
\* and at (neighbour, opposite dir), and every other blocker, the
\* collectibles, the position and moveCount stay.
C10_UseContract ==
    phase = "gameplay" =>
        \A dir \in Direction :
            LET r == useExecute(grid, CurrentGame, dir)
                pos == player.position
                there == <<pos, dir>> \in DOMAIN blockers
                fits == /\ player.inventory # NULL
                        /\ there
                        /\ canUnlock(player.inventory, blockers[<<pos, dir>>])
                gone == {<<pos, dir>>,
                         <<Step(pos, dir), OPPOSITE_DIRECTION[dir]>>}
            IN  /\ r.success <=> fits
                /\ r.game.collectibles = collectibles
                /\ r.game.player.position = pos
                /\ r.game.player.moveCount = player.moveCount
                /\ IF fits
                   THEN /\ r.game.player.inventory = NULL
                        /\ DOMAIN r.game.blockers = DOMAIN blockers \ gone
                        /\ gone \subseteq DOMAIN blockers
                        /\ \A k \in DOMAIN r.game.blockers :
                              r.game.blockers[k] = blockers[k]
                   ELSE /\ r.game.player.inventory = player.inventory
                        /\ r.game.blockers = blockers

\* exactly one gate has been cleared by a use
C10_Witness == phase = "gameplay" /\ Size(blockers) = 2

\* the game as a command may find it on the player's cell: as it stands,
\* and with any item in the player's hands and any item lying on the cell
\* (Player.pickup and MazeBoard.addCollectible called directly, as the
\* inventory tests do)
GamesAt ==
    {Game([player EXCEPT !.inventory = inv], c, blockers, revealed) :
        inv \in CollectibleType \cup {NULL},
        c \in {collectibles} \cup
              {addCollectible(collectibles, t, player.position) :
                  t \in CollectibleType}}

\* C11: pickup succeeds exactly when the inventory is empty and the
\* player's cell holds a collectible; it then removes that collectible from
\* the registry and puts its type in the inventory, and the position,
\* moveCount, the other collectibles, the blockers and the revealed cells
\* stay.
C11_PickupContract ==
    phase = "gameplay" =>
        \A gm \in GamesAt :
            LET r == pickupExecute(gm)
                pos == gm.player.position
                can == /\ gm.player.inventory = NULL
                       /\ pos \in DOMAIN gm.collectibles
            IN  /\ r.success <=> can
                /\ can =>
                      /\ r.game.player.inventory = gm.collectibles[pos]
                      /\ r.game.player.position = pos
                      /\ r.game.player.moveCount = gm.player.moveCount
                      /\ DOMAIN r.game.collectibles =
                            DOMAIN gm.collectibles \ {pos}
                      /\ \A q \in DOMAIN r.game.collectibles :
                            r.game.collectibles[q] = gm.collectibles[q]
                      /\ r.game.blockers = gm.blockers
                      /\ r.game.revealed = gm.revealed

\* the player has picked up one of the two collectibles and both gates
\* still stand
C11_Witness ==
    /\ phase = "gameplay"
    /\ player.inventory # NULL
    /\ Size(collectibles) = 1
    /\ Size(blockers) = 4

\* C12: drop succeeds exactly when the player holds an item and the
\* player's cell holds no collectible; it then empties the inventory and
\* registers a collectible of the held type on the cell, and the position,
\* moveCount, the other collectibles, the blockers and the revealed cells
\* stay.
C12_DropContract ==
    phase = "gameplay" =>
        \A gm \in GamesAt :
            LET r == dropExecute(gm)
                pos == gm.player.position
                can == /\ gm.player.inventory # NULL
                       /\ pos \notin DOMAIN gm.collectibles
            IN  /\ r.success <=> can
                /\ can =>
                      /\ r.game.player.inventory = NULL
                      /\ r.game.player.position = pos
                      /\ r.game.player.moveCount = gm.player.moveCount
                      /\ DOMAIN r.game.collectibles =
                            DOMAIN gm.collectibles \cup {pos}
                      /\ r.game.collectibles[pos] = gm.player.inventory
                      /\ \A q \in DOMAIN gm.collectibles :
                            r.game.collectibles[q] = gm.collectibles[q]
                      /\ r.game.blockers = gm.blockers
                      /\ r.game.revealed = gm.revealed

\* the player has carried a collectible to the start cell and dropped it
\* there
C12_Witness ==
    /\ phase = "gameplay"
    /\ player.inventory = NULL
    /\ Start \in DOMAIN collectibles

\* C13: a command that reports a failure (move, pickup, drop or use, with
\* any direction handed to it, valid or not) leaves the player's position,
\* moveCount and inventory, the collectibles, the blockers and the revealed
\* cells as they were.
C13_FailureChangesNothing ==
    phase = "gameplay" =>
        \A gm \in GamesAt :
            /\ \A dir \in DirectionInputs :
                  /\ ~moveExecute(grid, gm, dir).success =>
                        moveExecute(grid, gm, dir).game = gm
                  /\ ~useExecute(grid, gm, dir).success =>
                        useExecute(grid, gm, dir).game = gm
            /\ ~pickupExecute(gm).success => pickupExecute(gm).game = gm
            /\ ~dropExecute(gm).success => dropExecute(gm).game = gm

\* the player has walked to a gate with an item in hand: a move into the
\* gate, a pickup and a use toward a wall all fail there
C13_Witness ==
    /\ phase = "gameplay"
    /\ player.moveCount > 0
    /\ player.inventory # NULL
    /\ \E d \in Direction : <<player.position, d>> \in DOMAIN blockers
    /\ player.position \notin DOMAIN collectibles

\* the four pairs of the matching rule, as (item, blocker)
MatchingPairs ==
    {<<"key_red", "door_red">>, <<"key_blue", "door_blue">>,
     <<"key_green", "door_green">>, <<"dynamite", "rock">>}

\* C14: canUnlock holds of exactly four of the sixteen (item, blocker)
\* pairs, the four rows of BLOCKER_PAIRS; the search's test and
\* Player.useItem agree with it on every pair; and every collectible an
\* attempt of place has put on the board unlocks a blocker of the board,
\* for canUnlock, for the search and for Player.useItem alike.
C14_UnlockTable ==
    /\ {ib \in CollectibleType \X BlockerType : canUnlock(ib[1], ib[2])}
          = MatchingPairs
    /\ Cardinality(MatchingPairs) = 4
    /\ Cardinality(CollectibleType \X BlockerType) = 16
    /\ {<<BLOCKER_PAIRS[i].collectibleType, BLOCKER_PAIRS[i].blockerType>> :
            i \in 1 .. Len(BLOCKER_PAIRS)} = MatchingPairs
    /\ \A ib \in CollectibleType \X BlockerType :
          /\ canCross(ib[1], ib[2]) <=> ib \in MatchingPairs
          /\ useItem([NoPlayer EXCEPT !.inventory = ib[1]], ib[2]).ok
                <=> ib \in MatchingPairs
    /\ phase \in {"retry", "placed"} =>
          \A pos \in DOMAIN collectibles :
              \E k \in DOMAIN blockers :
                  /\ canUnlock(collectibles[pos], blockers[k])
                  /\ canCross(collectibles[pos], blockers[k])
                  /\ useItem([NoPlayer EXCEPT !.inventory = collectibles[pos]],
                             blockers[k]).ok

\* place has returned a board with a green door and a rock
C14_Witness ==
    /\ phase = "placed"
    /\ \E k \in DOMAIN blockers : blockers[k] = "door_green"
    /\ \E k \in DOMAIN blockers : blockers[k] = "rock"

\* C15: a blocker is registered at (P, D) exactly when a blocker of the
\* same type is registered at (neighbor(P, D), opposite(D)): in every
\* attempt of place, on the board it returns and after every command.
C15_BlockersMirrored ==
    \A k \in DOMAIN blockers :
        LET far == <<Step(k[1], k[2]), OPPOSITE_DIRECTION[k[2]]>>
        IN  /\ neighbor(k[1], k[2]) # <<>>
            /\ far \in DOMAIN blockers
            /\ blockers[far] = blockers[k]

\* a use has cleared one gate and the other still stands
C15_Witness ==
    /\ phase = "gameplay"
    /\ Size(blockers) = 2
    /\ player.inventory = NULL
    /\ player.moveCount > 1

\* C16: every registered blocker (P, D) is on a passage: P is a cell with
\* no wall toward D and neighbor(P, D) is in bounds.
C16_BlockersOnPassages ==
    \A k \in DOMAIN blockers :
        /\ k[1] \in Cells
        /\ ~hasWall(grid, k[1], k[2])
        /\ neighbor(k[1], k[2]) # <<>>

\* an attempt of place has registered two gates on a board that is not a
\* corridor, where cells have walls between them
C16_Witness ==
    /\ phase = "retry"
    /\ rows > 1 /\ cols > 1
    /\ Size(blockers) = 4

\* the elements of a sequence
SeqRange(seq) == {seq[i] : i \in 1 .. Len(seq)}

\* the directions in which the cell at pos has no wall
WallFree(pos) == {d \in Direction : pos \in Cells /\ ~grid[pos][d]}

\* C19 as stated: openDirections(pos) returns exactly the directions in
\* which the cell at pos has no wall, whether or not a blocker is
\* registered on that passage.
C19_Original ==
    \A pos \in Probes :
        SeqRange(openDirections(grid, blockers, pos)) = WallFree(pos)

\* C19: openDirections(pos) returns, once each, the directions in which the
\* cell at pos has no wall, without those on which a blocker is registered
\* at pos; it is the wall-free directions exactly when no blocker is
\* registered on a wall-free side of pos, and empty off the grid.
C19_OpenDirectionsSkipGates ==
    \A pos \in Probes :
        LET open == openDirections(grid, blockers, pos)
            gated == {d \in WallFree(pos) : <<pos, d>> \in DOMAIN blockers}
        IN  /\ SeqRange(open) = WallFree(pos) \ gated
            /\ Len(open) = Cardinality(SeqRange(open))
            /\ SeqRange(open) = WallFree(pos) <=> gated = {}
            /\ pos \notin Cells => open = <<>>

\* place has returned a board on which a cell has a wall-free side that
\* openDirections leaves out
C19_Witness ==
    /\ phase = "placed"
    /\ \E pos \in Cells :
          Len(openDirections(grid, blockers, pos)) <
              Cardinality(WallFree(pos))

\* C20: isBlocked(pos, dir) is true exactly when pos is off the grid, or
\* the wall of pos toward dir is intact, or a blocker is registered at
\* (pos, dir); openDirections(pos) lists, in the order of the Direction
\* enum, the directions of a cell for which isBlocked is false, and none of
\* them has a blocker registered.
C20_IsBlocked ==
    \A pos \in Probes :
        /\ \A dir \in Direction :
              isBlocked(grid, blockers, pos, dir) <=>
                  \/ pos \notin Cells
                  \/ grid[pos][dir]
                  \/ <<pos, dir>> \in DOMAIN blockers
        /\ LET open == openDirections(grid, blockers, pos)
           IN  /\ \A i \in 1 .. Len(open) :
                     /\ ~isBlocked(grid, blockers, pos, open[i])
                     /\ <<pos, open[i]>> \notin DOMAIN blockers
               /\ \A dir \in Direction :
                     (pos \in Cells /\ ~isBlocked(grid, blockers, pos, dir))
                         => dir \in SeqRange(open)
               /\ \A i, j \in 1 .. Len(open) :
                     i < j =>
                        \E a, c \in 1 .. Len(DirOrder) :
                           a < c /\ DirOrder[a] = open[i]
                                 /\ DirOrder[c] = open[j]

\* in play, a gate stands between a revealed cell and a cell not revealed
C20_Witness ==
    /\ phase = "gameplay"
    /\ \E k \in DOMAIN blockers :
          k[1] \in revealed /\ Step(k[1], k[2]) \notin revealed

\* tryPlace has reported success and place has returned its board
Succeeded == phase = "placed" /\ attempt < MAX_ATTEMPTS

\* the far side of the passage of blocker entry k
FarSide(k) == <<Step(k[1], k[2]), OPPOSITE_DIRECTION[k[2]]>>

\* the cells reached from (0,0) over wall-free passages without crossing
\* the passage of blocker entry k in either direction
ReachAvoiding(k) ==
    LET far == FarSide(k)
        closed == [[grid EXCEPT ![k[1]][k[2]] = TRUE]
                      EXCEPT ![far[1]][far[2]] = TRUE]
    IN  DOMAIN bfsDistances(closed, Start)

\* the collectibles of the board whose type unlocks the blocker of entry k
Unlocking(k) ==
    {pos \in DOMAIN collectibles : canUnlock(collectibles[pos], blockers[k])}

\* C17 as stated: after a successful placement, for every gated passage
\* exactly one collectible on the board has a type that unlocks its
\* blocker, and that collectible is reached from the start without
\* crossing the gated passage.
C17_Original ==
    Succeeded =>
        \A k \in DOMAIN blockers :
            /\ Cardinality(Unlocking(k)) = 1
            /\ Unlocking(k) \subseteq ReachAvoiding(k)

\* C17: after a successful placement, for every gated passage at least
\* one collectible whose type unlocks its blocker is reached from the
\* start without crossing the gated passage, and the collectibles of that
\* type are as many as the gated passages with that blocker type: exactly
\* one when no other gate has the type.
C17_GateHasItsItem ==
    Succeeded =>
        \A k \in DOMAIN blockers :
            /\ Unlocking(k) \cap ReachAvoiding(k) # {}
            /\ 2 * Cardinality(Unlocking(k)) =
                  Cardinality({j \in DOMAIN blockers :
                                  blockers[j] = blockers[k]})

\* place has returned three gates of which two have the same type
C17_Witness ==
    /\ Succeeded
    /\ Size(blockers) = 6
    /\ \E j, k \in DOMAIN blockers :
          /\ blockers[j] = blockers[k]
          /\ j # k /\ j # FarSide(k)

\* clamp(floor(totalCells / 30), 2, 4), case by case
Clamp(totalCells) ==
    IF totalCells < 90 THEN 2 ELSE IF totalCells < 120 THEN 3 ELSE 4

\* the passages tryPlace may gate on a carved board: those of the path
\* from (0,0) to the exit without the first and the last when the path
\* has more than two
Eligible ==
    LET passages == bfsDistances(grid, Start)[Exit]
    IN  IF passages > 2 THEN passages - 2 ELSE passages

\* C18: after a successful placement the gated passages number
\* min(clamp(floor(rows*cols / 30), 2, 4), eligible passages), each with
\* two blocker entries; on a board of 30 cells or more that is
\* 2 * clamp(floor(rows*cols / 30), 2, 4) entries, an even number from 4
\* to 8; and the count place computes is that clamp for every number of
\* cells up to twice WideCols.
C18_GateCount ==
    /\ \A n \in 1 .. 2 * WideCols :
          /\ blockerCountOf(n) = Clamp(n)
          /\ 2 * blockerCountOf(n) \in {4, 6, 8}
    /\ Succeeded =>
          /\ Size(blockers) = 2 * Min(Clamp(rows * cols), Eligible)
          /\ Size(blockers) % 2 = 0
          /\ rows * cols >= 30 =>
                /\ Size(blockers) = 2 * Clamp(rows * cols)
                /\ Size(blockers) \in {4, 6, 8}

\* place has returned a board of 30 cells or more with three gates
C18_Witness ==
    /\ Succeeded
    /\ rows * cols >= 30
    /\ Size(blockers) = 6
    /\ Size(collectibles) = 3

\* C21: revealFrom(pos) adds to the revealed set pos, when it is a cell,
\* and the cells next to pos across a side that has no wall and no
\* blocker, and nothing else: no cell behind a wall or a blocker and no
\* cell two steps away; and no step of a round takes a cell out of the
\* revealed set.
C21_RevealFrame ==
    /\ [](\A pos \in Probes :
            revealFrom(grid, blockers, revealed, pos) =
                revealed
                \cup ({pos} \cap Cells)
                \cup {q \in Cells :
                        \E d \in Direction :
                           /\ pos \in Cells
                           /\ q = Step(pos, d)
                           /\ ~grid[pos][d]
                           /\ <<pos, d>> \notin DOMAIN blockers})
    /\ [][revealed \subseteq revealed']_vars

\* the player has been revealed a cell beside a gate it has not opened:
\* the cell behind the gate is not revealed
C21_Witness ==
    /\ phase = "gameplay"
    /\ \E d \in Direction :
          /\ <<player.position, d>> \in DOMAIN blockers
          /\ player.position \in revealed
          /\ Step(player.position, d) \notin revealed

\* C22: once the generator has returned, no step of the round (the
\* attempts of place, the commands, the reveals) changes a wall flag.
C22_WallsFrozen == [][CarvingDone => grid' = grid]_vars

\* on a corridor of six cells or more, where place sets two gates or
\* none, the player has moved, picked up an item and cleared a gate with it
C22_Witness ==
    /\ phase = "gameplay"
    /\ rows = 1 /\ cols >= 6
    /\ player.moveCount > 0
    /\ player.inventory = NULL
    /\ Size(blockers) = 2
    /\ Size(collectibles) = 1

\* C23: a new round carries nothing over.  The new board has no revealed
\* cell until GameplayState.enter reveals from the start, and no
\* collectible and no blocker until place writes them; and when the round
\* is entered the player is at (0,0) with moveCount 0 and empty hands, won
\* is false, and the revealed cells are those revealFrom gives from the
\* start on a board with none.
C23_NothingCarriedOver ==
    /\ [](phase \in {"built", "carve", "place", "retry", "placed"}
            => revealed = {})
    /\ [](phase \in {"built", "carve", "place"}
            => collectibles = EmptyMap /\ blockers = EmptyMap)
    /\ [][phase = "placed" /\ phase' = "gameplay" =>
            /\ player' = [position |-> <<0, 0>>, moveCount |-> 0,
                           inventory |-> NULL]
            /\ won' = FALSE
            /\ revealed' = revealFrom(grid, blockers, {}, <<0, 0>>)
            /\ collectibles' = collectibles
            /\ blockers' = blockers]_vars

\* a later round has been entered on a board with gates while the
\* animation of the last move of the round before is still running
C23_Witness ==
    /\ phase = "gameplay"
    /\ animating
    /\ player.moveCount = 0
    /\ ~won
    /\ Size(blockers) > 0

\* C24 as stated: after placement and after any sequence of commands no
\* collectible rests on the start cell or on the exit cell.
C24_Original ==
    phase \in {"placed", "gameplay", "gameover"} =>
        /\ Start \notin DOMAIN collectibles
        /\ Exit \notin DOMAIN collectibles

\* C24: the board place returns has no collectible on the start cell or on
\* the exit cell, and every collectible lies on a cell of the grid.  In
\* play the collectibles change by a pickup, which takes the one on the
\* player's cell into empty hands, or by a drop, which puts the held item
\* on the player's cell when that cell holds none - the start cell and
\* the exit cell included - and in no other way: a cell never holds more
\* than one collectible.
C24_CollectiblesInPlay ==
    /\ [](phase = "placed" =>
            Start \notin DOMAIN collectibles /\ Exit \notin DOMAIN collectibles)
    /\ [](DOMAIN collectibles \subseteq Cells)
    /\ [][phase = "gameplay" =>
            \/ collectibles' = collectibles
            \/ /\ player.inventory = NULL
               /\ player.position \in DOMAIN collectibles
               /\ player'.inventory = collectibles[player.position]
               /\ DOMAIN collectibles' =
                     DOMAIN collectibles \ {player.position}
               /\ \A q \in DOMAIN collectibles' :
                     collectibles'[q] = collectibles[q]
            \/ /\ player.inventory # NULL
               /\ player.position \notin DOMAIN collectibles
               /\ player'.inventory = NULL
               /\ DOMAIN collectibles' =
                     DOMAIN collectibles \cup {player.position}
               /\ collectibles'[player.position] = player.inventory
               /\ \A q \in DOMAIN collectibles :
                     collectibles'[q] = collectibles[q]]_vars

\* the player has carried an item back and dropped it on the start cell
C24_Witness ==
    /\ phase = "gameplay"
    /\ player.position = Start
    /\ player.inventory = NULL
    /\ Start \in DOMAIN collectibles

\* C25: a move toward a side of the player's cell with an intact wall
\* fails with the wall failure; a move toward a side with no wall and a
\* blocker registered on it fails with the blocker failure, which names
\* the type of that blocker.
C25_MoveFailureCause ==
    phase = "gameplay" =>
        \A dir \in Direction :
            LET r == moveExecute(grid, CurrentGame, dir)
                side == <<player.position, dir>>
            IN  /\ grid[player.position][dir] =>
                      ~r.success /\ r.reason = "wall"
                /\ ~grid[player.position][dir] /\ side \in DOMAIN blockers =>
                      /\ ~r.success
                      /\ r.reason = "blocker"
                      /\ r.blocker = blockers[side]

\* the player has walked up to a gate, with nothing in its hands
C25_Witness ==
    /\ phase = "gameplay"
    /\ player.moveCount > 0
    /\ player.inventory = NULL
    /\ \E dir \in Direction :
          /\ ~grid[player.position][dir]
          /\ <<player.position, dir>> \in DOMAIN blockers

\* C26: look gives the coordinates of the exit exactly when the exit cell
\* is in the revealed set at the time of the call, and reports the exit
\* position as unknown otherwise.
C26_LookDisclosesRevealedExit ==
    phase = "gameplay" =>
        LET r == lookExecute(grid, CurrentGame)
        IN  /\ r.exitPosition = <<<<rows - 1, cols - 1>>>>
                  <=> <<rows - 1, cols - 1>> \in revealed
            /\ <<rows - 1, cols - 1>> \notin revealed => r.exitPosition = <<>>

\* the player stands beside the exit on a board of four cells or more:
\* the exit is revealed and the player is not on it
C26_Witness ==
    /\ phase = "gameplay"
    /\ rows * cols >= 4
    /\ Exit \in revealed
    /\ player.position # Exit
    /\ \E c \in Cells : c \notin revealed

\* C27: for a position outside the grid, hasWall and isBlocked are true in
\* every direction, getCell and getCollectible give nothing and
\* openDirections gives the empty list; and neighbor(pos, dir) gives
\* nothing when the adjacent position is outside the grid.  (A board
\* exists once new MazeBoard has run.)
C27_OutOfBoundsFailsClosed ==
    phase # "intro" =>
        /\ \A pos \in Probes :
              ~(pos[1] \in 0 .. rows - 1 /\ pos[2] \in 0 .. cols - 1) =>
                  /\ getCell(grid, pos) = <<>>
                  /\ getCollectible(collectibles, pos) = <<>>
                  /\ openDirections(grid, blockers, pos) = <<>>
                  /\ \A dir \in Direction :
                        /\ hasWall(grid, pos, dir)
                        /\ isBlocked(grid, blockers, pos, dir)
        /\ \A pos \in Probes, dir \in Direction :
              LET next == <<pos[1] + DIRECTION_OFFSETS[dir][1],
                            pos[2] + DIRECTION_OFFSETS[dir][2]>>
              IN  ~(next[1] \in 0 .. rows - 1 /\ next[2] \in 0 .. cols - 1) =>
                      neighbor(pos, dir) = <<>>

\* a board of four cells or more with gates and collectibles on it
C27_Witness ==
    /\ phase = "gameplay"
    /\ rows * cols >= 4
    /\ Size(blockers) > 0
    /\ Size(collectibles) > 0
    /\ player.moveCount = 0

\* what the commands would make of the current state, one result for each
\* command and direction
CommandResults ==
    {moveExecute(grid, CurrentGame, dir) : dir \in Direction}
    \cup {useExecute(grid, CurrentGame, dir) : dir \in Direction}
    \cup {pickupExecute(CurrentGame), dropExecute(CurrentGame)}

\* what the claim is about: the player and the registries of the board
Holdings == <<player, collectibles, blockers>>

\* C28: a step of the round that changes the player's position, move count
\* or inventory, the collectibles or the blockers applies the whole change
\* of one successful command at once; the step that follows the await of
\* a move, when its animation is done, changes none of them.
C28_CommandsAtomic ==
    [][(phase = "gameplay" \/ phase = "gameover") =>
          /\ \/ Holdings' = Holdings
             \/ \E r \in CommandResults :
                   /\ r.success
                   /\ phase = "gameplay"
                   /\ player' = r.game.player
                   /\ collectibles' = r.game.collectibles
                   /\ blockers' = r.game.blockers
          /\ animating /\ ~animating' => Holdings' = Holdings]_vars

\* a pickup has run while the animation of a move was still running
C28_Witness ==
    /\ phase = "gameplay"
    /\ animating
    /\ player.inventory # NULL
    /\ player.position \notin revealed

\* the blocker entries on the near side of their passage: the cell of the
\* entry is closer to the start than the cell across
NearSides(dist) ==
    {k \in DOMAIN blockers : dist[k[1]] < dist[Step(k[1], k[2])]}

\* C29: after an attempt of place, every collectible on the board lies at
\* a wall-only distance from the start of at least 1 and less than that
\* of the near-side cell of a gate its type unlocks; no collectible was
\* put on a cell that held one: the collectibles are as many as the gates,
\* or one fewer when the attempt gave up at a gate it found no cell for.
C29_CollectibleBeforeItsGate ==
    phase \in {"retry", "placed"} =>
        LET dist == bfsDistances(grid, Start)
            gates == NearSides(dist)
        IN  /\ \A pos \in DOMAIN collectibles :
                  /\ dist[pos] >= 1
                  /\ \E k \in gates :
                        /\ canUnlock(collectibles[pos], blockers[k])
                        /\ dist[pos] < dist[k[1]]
            /\ 2 * Cardinality(gates) = Size(blockers)
            /\ Size(collectibles) \in
                  {Cardinality(gates) - 1, Cardinality(gates)}
            /\ phase = "placed" => Size(collectibles) = Cardinality(gates)

\* an attempt has placed two gates and two collectibles and has failed
\* the solvability search
C29_Witness ==
    /\ phase = "retry"
    /\ Size(blockers) = 4
    /\ Size(collectibles) = 2

\* the passages of the shortest path from the start to the exit, each from
\* its side toward the exit: a side without a wall that leads one step
\* away from the start and one step closer to the exit, on a way of the
\* least length
PathPassages(dStart, dExit) ==
    {k \in Cells \X Direction :
        /\ ~grid[k[1]][k[2]]
        /\ Step(k[1], k[2]) \in Cells
        /\ dStart[k[1]] + 1 + dExit[Step(k[1], k[2])] = dStart[Exit]}

\* C30: after an attempt of place every gate is on a passage of the
\* shortest path from the start to the exit; when that path has more than
\* two passages, no gate is on the passage that leaves the start cell or
\* on the passage that enters the exit cell; when it has one or two, all
\* of them are candidates; when it has none, the attempt places nothing.
\* The passages tryPlace takes from its path are those of that path.
C30_GatesOnShortestPath ==
    phase \in {"retry", "placed"} =>
        LET dStart == bfsDistances(grid, Start)
            dExit == bfsDistances(grid, Exit)
            onPath == PathPassages(dStart, dExit)
            length == dStart[Exit]
            passages ==
                pathToPassages(findShortestPath(grid, Start, Exit)[1])
        IN  /\ {<<passage.pos, passage.dir>> :
                     passage \in SeqRange(passages)} = onPath
            /\ Len(passages) = length
            /\ \A k \in DOMAIN blockers :
                  LET toExit == IF k \in onPath THEN k ELSE FarSide(k)
                  IN  /\ toExit \in onPath
                      /\ length > 2 =>
                            /\ toExit[1] # Start
                            /\ Step(toExit[1], toExit[2]) # Exit
            /\ length \in {1, 2} => candidatesOf(passages) = passages
            /\ length = 0 =>
                  blockers = EmptyMap /\ collectibles = EmptyMap

\* on a board whose path has two passages an attempt has put a gate on
\* the passage that leaves the start cell
C30_Witness ==
    /\ phase = "retry"
    /\ bfsDistances(grid, Start)[Exit] = 2
    /\ \E d \in Direction : <<Start, d>> \in DOMAIN blockers

\* the blocker types that are doors
DoorTypes == {"door_red", "door_blue", "door_green"}

Branch(pos, inv, dir) ==
    isSolvableDirs(grid, blockers,
                   [pos |-> pos, inv |-> inv, pickedUp |-> {}, plan |-> <<>>],
                   <<dir>>, <<>>, {}).queue

\* C32: in the solvability search, a branch that has crossed a gated
\* passage with a matching item can afterwards go back through that
\* passage with empty hands, as the runtime allows once use has removed
\* the blocker. Stated of the boards an attempt of place leaves.
C32_Original ==
    phase \in {"retry", "placed"} =>
        \A k \in DOMAIN blockers : \A t \in CollectibleType :
            canUnlock(t, blockers[k]) =>
                LET crossed == Branch(k[1], t, k[2])
                IN  /\ crossed # <<>>
                    /\ crossed[1].inv = NULL
                    /\ Branch(crossed[1].pos, NULL,
                              OPPOSITE_DIRECTION[k[2]]) # <<>>

\* the locals of isSolvable when its loop is entered
SearchStart ==
    [queue |-> <<[pos |-> Start, inv |-> NULL, pickedUp |-> {},
                  plan |-> <<>>]>>,
     seen |-> {<<Start, NULL>>}, done |-> FALSE, plan |-> <<>>]

\* the while loop of isSolvable run from locals st after i iterations,
\* with n iterations allowed: it ends within them, and after every
\* iteration the states enqueued so far (those taken off the queue and
\* those waiting in it) are as many as the keys in visited, all different
RECURSIVE EnqueuedOnce(_, _, _, _, _, _)
EnqueuedOnce(g, b, c, st, i, n) ==
    IF st.queue = <<>> THEN TRUE
    ELSE IF n = 0 THEN FALSE
    ELSE LET nx == isSolvableStep(g, b, c, st)
             waiting == IF nx.done THEN Len(nx.queue) - 1 ELSE Len(nx.queue)
         IN  /\ Cardinality(nx.seen) = i + 1 + waiting
             /\ \A j \in 1 .. Len(nx.queue) :
                    <<nx.queue[j].pos, nx.queue[j].inv>> \in nx.seen
             /\ nx.seen \subseteq Cells \X (CollectibleType \cup {NULL})
             /\ nx.done \/ EnqueuedOnce(g, b, c, nx, i + 1, n - 1)

\* C33: on every board that place leaves or the game reaches, the loop of
\* isSolvable ends within rows * cols * 5 iterations, and every (cell,
\* held item or none) state it enqueues is enqueued once.
C33_SearchBounded ==
    phase \in {"retry", "placed", "gameplay"} =>
        /\ Cardinality(CollectibleType) + 1 = 5
        /\ EnqueuedOnce(grid, blockers, collectibles, SearchStart, 0,
                        rows * cols * 5)

\* a board in play with two gates and two items, the player standing
\* empty-handed on one of the items after two moves or more
C33_Witness ==
    /\ phase = "gameplay"
    /\ Size(blockers) = 4
    /\ Size(collectibles) = 2
    /\ player.inventory = NULL
    /\ player.moveCount >= 2
    /\ \E pos \in DOMAIN collectibles : pos = player.position

\* the elements of a sequence are all different
NoRepeat(seq) == \A i, j \in 1 .. Len(seq) : seq[i] = seq[j] => i = j

\* C34: generate terminates whatever neighbours it draws: every iteration
\* either marks a cell that was not visited and pushes it, or pops the top
\* of the stack; no cell is on the stack twice and every cell on it is
\* visited, so a cell is pushed once and popped once; and the loop, once
\* entered, comes to an empty stack with every cell visited.
C34_GenerateTerminates ==
    /\ [](phase = "carve" =>
            /\ NoRepeat(stack)
            /\ SeqRange(stack) \subseteq visited
            /\ visited \subseteq Cells)
    /\ [][phase = "carve" /\ phase' = "carve" =>
            \/ \E next \in Cells \ visited :
                  /\ stack' = Append(stack, next)
                  /\ visited' = visited \cup {next}
            \/ /\ stack # <<>>
               /\ stack' = SubSeq(stack, 1, Len(stack) - 1)
               /\ visited' = visited]_vars
    /\ (phase = "carve") ~> (phase = "carve" /\ stack = <<>> /\ visited = Cells)

\* generate is backtracking on a 2 x 4 board: all cells are visited and
\* five of them are still on the stack
C34_Witness ==
    /\ phase = "carve" /\ rows = 2 /\ cols = 4
    /\ visited = Cells
    /\ Len(stack) = 5

\* the cells reached from the cells of S over passages with no wall and no
\* blocker of registry b
RECURSIVE ReachUnblocked(_, _)
ReachUnblocked(b, S) ==
    LET T == S \cup {q \in Cells :
                       \E p \in S, d \in Direction :
                          ~isBlocked(grid, b, p, d) /\ Step(p, d) = q}
    IN  IF T = S THEN S ELSE ReachUnblocked(b, T)

\* the passages of the way from one cell to another over removed walls
Way(from, to) ==
    IF from = to THEN <<>>
    ELSE LET path == findShortestPath(grid, from, to)
         IN  IF path = <<>> THEN <<>> ELSE pathToPassages(path[1])

\* the move commands along a sequence of passages
Walk(passages) == [i \in 1 .. Len(passages) |-> <<"move", passages[i].dir>>]

\* the next commands of a player who heads for the exit: walk there when
\* no blocker is on the way; else use the held item on the first blocker
\* of the way when it matches, fetch a matching item when the hands are
\* empty, and put the held item down on a free cell when it does not match
EscapeStep(gm) ==
    LET pos == gm.player.position
        held == gm.player.inventory
        passages == Way(pos, Exit)
        gated == {i \in 1 .. Len(passages) :
                    getBlocker(gm.blockers, passages[i].pos,
                               passages[i].dir) # <<>>}
        region == ReachUnblocked(gm.blockers, {pos})
    IN  IF gated = {} THEN [can |-> TRUE, plan |-> Walk(passages)]
        ELSE LET i == CHOOSE x \in gated : \A y \in gated : x <= y
                 type == getBlocker(gm.blockers, passages[i].pos,
                                    passages[i].dir)[1]
                 items == {q \in region \cap DOMAIN gm.collectibles :
                             canUnlock(gm.collectibles[q], type)}
                 free == region \ DOMAIN gm.collectibles
             IN  IF held # NULL /\ canUnlock(held, type)
                 THEN [can |-> TRUE,
                       plan |-> Walk(SubSeq(passages, 1, i - 1))
                                \o <<<<"use", passages[i].dir>>>>]
                 ELSE IF held = NULL
                 THEN IF items = {} THEN [can |-> FALSE, plan |-> <<>>]
                      ELSE [can |-> TRUE,
                            plan |-> Walk(Way(pos, CHOOSE q \in items : TRUE))
                                     \o <<<<"pickup", "">>>>]
                 ELSE IF free = {} THEN [can |-> FALSE, plan |-> <<>>]
                      ELSE [can |-> TRUE,
                            plan |-> Walk(Way(pos, CHOOSE q \in free : TRUE))
                                     \o <<<<"drop", "">>>>]

\* the commands of EscapeStep run by the runtime's rules, n times at most,
\* until the player stands on the exit
RECURSIVE EscapeRun(_, _)
EscapeRun(gm, n) ==
    IF gm.player.position = Exit THEN [ok |-> TRUE, game |-> gm]
    ELSE IF n = 0 THEN [ok |-> FALSE, game |-> gm]
    ELSE LET step == EscapeStep(gm)
         IN  IF ~step.can THEN [ok |-> FALSE, game |-> gm]
             ELSE LET r == RunPlan(grid, gm, step.plan)
                  IN  IF ~r.ok THEN r ELSE EscapeRun(r.game, n - 1)

\* C35: the player is never stranded: in every state the commands reach
\* on a board that carving and place produced, a further sequence of move,
\* pickup, drop and use commands succeeds and ends on the exit.
C35_NeverStranded ==
    phase = "gameplay" =>
        LET run == EscapeRun(CurrentGame, 3 * Size(blockers) + 1)
        IN  /\ run.ok
            /\ run.game.player.position = Exit

\* both gates stand and the player, empty-handed and away from the start
\* cell, has put an item down on the start cell, where place puts none
C35_Witness ==
    /\ phase = "gameplay"
    /\ Size(blockers) = 4
    /\ Size(collectibles) = 2
    /\ Start \in DOMAIN collectibles
    /\ player.inventory = NULL
    /\ player.position # Start

\* the gated passages of blocker type bt still on the board
GatesOf(bt) == Cardinality({k \in DOMAIN blockers : blockers[k] = bt}) \div 2

\* the items in play that unlock blocker type bt: those on the board and
\* the one the player holds
ItemsFor(bt) ==
    Cardinality({pos \in DOMAIN collectibles :
                    canUnlock(collectibles[pos], bt)})
    + (IF player.inventory # NULL /\ canUnlock(player.inventory, bt)
       THEN 1 ELSE 0)

\* the items in play
ItemsInPlay ==
    Size(collectibles) + (IF player.inventory # NULL THEN 1 ELSE 0)

\* C36: once place has returned and through every command, each blocker
\* type has as many gated passages on the board as there are matching
\* items on the board and in the player's hands; no step of the game adds
\* an item, and a step that takes one away is a use that empties the
\* player's hands and removes the two entries of a blocker.
C36_ItemsMatchGates ==
    /\ [](phase \in {"placed", "gameplay", "gameover"} =>
            /\ \A bt \in BlockerType : GatesOf(bt) = ItemsFor(bt)
            /\ \A k \in DOMAIN blockers :
                   Cardinality({j \in DOMAIN blockers :
                                  blockers[j] = blockers[k]}) % 2 = 0)
    /\ [][(phase = "gameplay" \/ phase = "gameover") =>
            \/ ItemsInPlay' = ItemsInPlay /\ blockers' = blockers
            \/ /\ ItemsInPlay' = ItemsInPlay - 1
               /\ player.inventory # NULL
               /\ player'.inventory = NULL
               /\ collectibles' = collectibles
               /\ Size(blockers') = Size(blockers) - 2]_vars

\* one gate has been cleared, and the item of the other has been picked
\* up and put down again
C36_Witness ==
    /\ phase = "gameplay"
    /\ Size(blockers) = 2
    /\ Size(collectibles) = 1
    /\ player.inventory = NULL
    /\ \E pos \in DOMAIN collectibles :
          /\ pos = Start
          /\ \E k \in DOMAIN blockers : canUnlock(collectibles[pos], blockers[k])

\* C37: in play, a player on the exit cell stands on a board with an empty
\* blocker registry; every change of the player's position is one step
\* across a side with no wall that has no blocker entry on either cell;
\* and blocker entries leave the registry only in a step where the player
\* held an item that unlocks them.
C37_ExitBehindClearedGates ==
    /\ []((phase = "gameplay" \/ phase = "gameover") /\ player.position = Exit
            => blockers = EmptyMap)
    /\ [][phase = "gameplay" /\ player'.position # player.position =>
            \E dir \in Direction :
                /\ player'.position = Step(player.position, dir)
                /\ ~grid[player.position][dir]
                /\ <<player.position, dir>> \notin DOMAIN blockers
                /\ <<player'.position, OPPOSITE_DIRECTION[dir]>>
                       \notin DOMAIN blockers]_vars
    /\ [][phase = "gameplay" /\ blockers' # blockers =>
            /\ DOMAIN blockers' \subseteq DOMAIN blockers
            /\ player.inventory # NULL
            /\ player'.inventory = NULL
            /\ \A k \in DOMAIN blockers \ DOMAIN blockers' :
                   canUnlock(player.inventory, blockers[k])]_vars

\* the player stands on the exit of a board on which place had put two
\* gates, both cleared and both items spent
C37_Witness ==
    /\ phase = "gameplay"
    /\ rows * cols = MaxCells
    /\ attempt < MAX_ATTEMPTS
    /\ player.position = Exit
    /\ blockers = EmptyMap
    /\ collectibles = EmptyMap

\* C38: in gameplay, whenever no animation is in progress (and so no move
\* command is about to resume), the player's cell and every cell next to
\* it across a side with no wall and no blocker are revealed: after enter,
\* after the moves, overlapping or not, and after a use.
C38_SurroundingsRevealed ==
    /\ animating => awaiting >= 1
    /\ phase = "gameplay" /\ ~animating =>
          /\ player.position \in revealed
          /\ \A dir \in Direction :
                 ~isBlocked(grid, blockers, player.position, dir)
                 /\ inBounds(Step(player.position, dir))
                 => Step(player.position, dir) \in revealed

\* a second move was issued over the animation of the first, the
\* animation is over, and the player has since cleared a gate
C38_Witness ==
    /\ phase = "gameplay"
    /\ ~animating
    /\ awaiting >= 1
    /\ player.moveCount >= 2
    /\ Size(blockers) = 2
    /\ Size(collectibles) = 1

\* C39: the promise of every animateTo call resolves once the animation
\* completes, also when a second move called animateTo over the first:
\* when no animation is in progress, no move command is left suspended at
\* its await.
C39_Original == ~animating => awaiting = 0

=============================================================================
